---- MODULE Spec2Model ----
(***************************************************************************)
(* Verification model of the scikit-nano geometry core:                    *)
(*   - sknano/core/math/_vector.py          (Vector, a numpy.ndarray       *)
(*     subclass that keeps an anchor Point _p0 and a head Point _p)        *)
(*   - sknano/core/crystallography/xtal_cells.py (UnitCell, CrystalCell,   *)
(*     SuperCell)                                                          *)
(*   - sknano/core/crystallography/_base.py (CrystalLattice)               *)
(*   - sknano/core/atoms/_atoms.py, cn_atoms.py, _extended_atom.py         *)
(*     (Atoms, CNAtoms, XAtom)                                             *)
(*                                                                         *)
(* Python objects are heap cells: a Point, a component buffer, a lattice   *)
(* and a basis container each have an identity (an index into a heap       *)
(* sequence), so that two references to the same object alias.  Numbers    *)
(* are integers; every operation is applied only to inputs on which the    *)
(* floating point result is an exact integer.                              *)
(***************************************************************************)
EXTENDS Integers, Sequences, FiniteSets, TLC

(***************************************************************************)
(* Bounds of the model.                                                    *)
(***************************************************************************)
MaxVecs == 3
MaxOps == 2
MaxCellOps == 2
MaxAtoms == 16
MaxLatOps == 3
MaxAtomOps == 2
MaxData == 3
MaxXOps == 2

VARIABLES
    pts,      \* heap of Point objects: Seq of coordinate sequences
    bufs,     \* heap of ndarray data buffers (Vector components)
    vecs,     \* Vector objects: [buf, p, p0] references into the heaps,
              \* and src, the Vector it was constructed from (0: none)
    vlast,    \* the last Vector operation and its outcome
    nops      \* number of operations done

VARIABLES
    lats,     \* heap of lattice objects: [m |-> cell matrix (rows a1, a2, a3),
              \*                           off |-> offset]
    conts,    \* heap of BasisAtoms containers: [lat, atoms]
    ucell,    \* the UnitCell U: [lattice, basis, wrap]
    cell,     \* the CrystalCell / SuperCell under test
    ccopy,    \* the object copy.deepcopy returned last
    clast,    \* the last cell operation and its outcome
    cops      \* number of cell operations done

VARIABLES
    xlat,     \* the CrystalLattice L: [abc, orientation, offset]
    llast,    \* the last lattice call and its outcome
    lops      \* number of lattice calls done

VARIABLES
    objs,     \* heap of atom objects: [el, m, r, CN]
    data,     \* Atoms._data: the sequence of references to atom objects
    cache,    \* Atoms._coords, _masses, _symbols as last stored
    akind,    \* the class of the container: "Atoms" or "CNAtoms"
    alast,    \* the last container operation and its outcome
    aops      \* number of container operations done

vvars == <<pts, bufs, vecs, vlast, nops>>

cvars == <<lats, conts, ucell, cell, ccopy, clast, cops>>

lvars == <<xlat, llast, lops>>

VARIABLES
    xatom,    \* the XAtom under test: the value each attribute holds
    xlast,    \* the last XAtom call and its outcome
    xops      \* number of XAtom calls done

xvars == <<xatom, xlast, xops>>

avars == <<objs, data, cache, akind, alast, aops>>

vars == <<vvars, cvars, lvars, avars, xvars>>

(***************************************************************************)
(* numpy elementwise arithmetic on 1-d arrays                              *)
(***************************************************************************)
Zeros(n) == [k \in 1..n |-> 0]

\* numpy broadcasting of two 1-d shapes: equal lengths, or one of length 1
Broadcastable(n, m) == n = m \/ n = 1 \/ m = 1

BLen(a, b) == IF Len(a) >= Len(b) THEN Len(a) ELSE Len(b)

At(a, k) == IF Len(a) = 1 THEN a[1] ELSE a[k]

ArrAdd(a, b) == [k \in 1..BLen(a, b) |-> At(a, k) + At(b, k)]

ArrSub(a, b) == [k \in 1..BLen(a, b) |-> At(a, k) - At(b, k)]

ArrScale(k, a) == [i \in 1..Len(a) |-> k * a[i]]

Abs(x) == IF x < 0 THEN -x ELSE x

Sign(x) == IF x < 0 THEN -1 ELSE IF x > 0 THEN 1 ELSE 0

(***************************************************************************)
(* Accessors of a Vector object v = [buf, p, p0]                           *)
(***************************************************************************)
Comp(i) == bufs[vecs[i].buf]

HeadOf(i) == pts[vecs[i].p]

AnchorOf(i) == pts[vecs[i].p0]

Dim(i) == Len(bufs[vecs[i].buf])

\* the identity  components == p - p0
Consistent(i) == Comp(i) = ArrSub(HeadOf(i), AnchorOf(i))

(***************************************************************************)
(* Heap updates.  h = [pts |-> ..., bufs |-> ...] is threaded through the  *)
(* statements of a method in program order.                                *)
(***************************************************************************)
Heap == [pts |-> pts, bufs |-> bufs]

\* Vector.p setter:  self._p[:] = value ; self[:] = self._p - self._p0
SetP(h, v, value) ==
    LET h1 == [h EXCEPT !.pts[v.p] = value]
    IN  [h1 EXCEPT !.bufs[v.buf] = ArrSub(h1.pts[v.p], h1.pts[v.p0])]

\* Vector.p0 setter: self._p0[:] = value ; self[:] = self._p - self._p0
SetP0NoRederive(h, v, value) ==
    [h EXCEPT !.pts[v.p0] = value]

SetP0(h, v, value) ==
    LET h1 == [h EXCEPT !.pts[v.p0] = value]
    IN  [h1 EXCEPT !.bufs[v.buf] = ArrSub(h1.pts[v.p], h1.pts[v.p0])]

\* Vector._update_p:  self._p[:] = self._p0[:] + self.__array__()
UpdateP(h, v) ==
    [h EXCEPT !.pts[v.p] = ArrAdd(h.pts[v.p0], h.bufs[v.buf])]

\* sknano.core.math._transforms.rotate applied to a Point: a quarter turn
\* about the z axis through the point R.about (the transform matrix
\* derived from angle = pi/2, axis = z, anchor_point = R.about)
RotatePoint(R, q) ==
    [k \in 1..Len(q) |->
        IF k = 1 THEN R.about[1] - (q[2] - R.about[2])
        ELSE IF k = 2 THEN R.about[2] + (q[1] - R.about[1])
        ELSE q[k]]

(***************************************************************************)
(* Inputs of the Vector operations                                         *)
(***************************************************************************)
InitComps == { <<2>>, <<1, 2>>, <<0, 2, 0>>, <<1, 0, 2>>, <<1, 2, 0, 1>> }

Anchors(n) == { Zeros(n), [k \in 1..n |-> 1] }

Shifts(n) == { [k \in 1..n |-> IF k = 1 THEN 1 ELSE 0],
               [k \in 1..n |-> IF k = n THEN -2 ELSE 1] }

Scalars == { -1, 0, 2 }

Transforms == { [about |-> <<0, 0, 0>>], [about |-> <<1, 0, 0>>] }

Names == { "x", "y", "z" }

NameIndex(name) == IF name = "x" THEN 1 ELSE IF name = "y" THEN 2 ELSE 3

\* Python's None where a sequence of numbers is expected
None == <<>>

Idle == [op |-> "none", tgt |-> 0, oth |-> 0, raised |-> FALSE, val |-> <<>>]

Did(op, i, j, raised, val) ==
    [op |-> op, tgt |-> i, oth |-> j, raised |-> raised, val |-> val]

(***************************************************************************)
(* Vector.__new__ from a list of components v with anchor a:               *)
(*   p0 = Point(a, nd) ; p = p0 + v ; vec._p = p ; vec._p0 = p0            *)
(***************************************************************************)
NewVector(v, a, src) ==
    /\ Len(vecs) < MaxVecs
    /\ pts' = pts \o << a, ArrAdd(a, v) >>
    /\ bufs' = Append(bufs, v)
    /\ vecs' = Append(vecs, [buf |-> Len(bufs) + 1, p |-> Len(pts) + 2,
                             p0 |-> Len(pts) + 1, src |-> src])

VInit ==
    /\ \E v \in InitComps : \E a \in Anchors(Len(v)) :
          /\ pts = << a, ArrAdd(a, v) >>
          /\ bufs = << v >>
          /\ vecs = << [buf |-> 1, p |-> 2, p0 |-> 1, src |-> 0] >>
    /\ vlast = Idle
    /\ nops = 0

VNew ==
    /\ nops < MaxOps
    /\ UNCHANGED <<cvars, lvars, avars, xvars>>
    /\ \E v \in InitComps : \E a \in Anchors(Len(v)) :
          /\ NewVector(v, a, 0)
          /\ vlast' = Did("new", Len(vecs) + 1, 0, FALSE, <<>>)
    /\ nops' = nops + 1

(***************************************************************************)
(* Vector.__new__ from a Vector src (lines 92-110), numpy's ndarray.copy   *)
(* and ndarray.view, all of which run Vector.__array_finalize__:           *)
(*   self._p0 = getattr(obj, 'p0', None) ; self._p = getattr(obj, 'p', ..) *)
(* so the new object refers to the SAME Point objects as obj.              *)
(*   how = "copy"   Vector(src)              own buffer, src's Points      *)
(*   how = "view"   Vector(src, copy=False)  src's buffer, src's Points    *)
(*   how = "npcopy" src.copy()               own buffer, src's Points      *)
(*   how = "p0"     Vector(src, p0=src.p0)   rebuilt by the list branch:   *)
(*                  Point(p0) copies the anchor, p = p0 + v is new         *)
(***************************************************************************)
ArrayFinalize(src, ownbuf) ==
    /\ pts' = pts
    /\ bufs' = IF ownbuf THEN Append(bufs, bufs[vecs[src].buf]) ELSE bufs
    /\ vecs' = Append(vecs,
                 [buf |-> IF ownbuf THEN Len(bufs) + 1 ELSE vecs[src].buf,
                  p |-> vecs[src].p, p0 |-> vecs[src].p0, src |-> src])

VDerive ==
    /\ nops < MaxOps
    /\ UNCHANGED <<cvars, lvars, avars, xvars>>
    /\ Len(vecs) < MaxVecs
    /\ \E src \in 1..Len(vecs) : \E how \in {"copy", "view", "npcopy", "p0"} :
          /\ IF how = "p0"
             THEN NewVector(Comp(src), AnchorOf(src), src)
             ELSE ArrayFinalize(src, how # "view")
          /\ vlast' = Did(how, Len(vecs) + 1, src, FALSE, <<>>)
    /\ nops' = nops + 1

(***************************************************************************)
(* Vector.translate(t, fix_anchor_point):                                  *)
(*   self.p += t ; if not fix_anchor_point: self.p0 += t                   *)
(* `self.p += t` adds in place to the Point and then runs the p setter.    *)
(***************************************************************************)
Translate(h, v, t, fix) ==
    LET h1 == SetP(h, v, ArrAdd(h.pts[v.p], t))
    IN  IF fix THEN h1 ELSE SetP0(h1, v, ArrAdd(h1.pts[v.p0], t))

VTranslate ==
    /\ nops < MaxOps
    /\ UNCHANGED <<cvars, lvars, avars, xvars>>
    /\ \E i \in 1..Len(vecs) : \E t \in Shifts(Dim(i)) : \E fix \in BOOLEAN :
          LET h == Translate(Heap, vecs[i], t, fix)
          IN  /\ pts' = h.pts
              /\ bufs' = h.bufs
              /\ vlast' = Did(IF fix THEN "translate_fix" ELSE "translate",
                              i, 0, FALSE, <<>>)
    /\ nops' = nops + 1
    /\ UNCHANGED vecs

(***************************************************************************)
(* Vector.rotate:                                                          *)
(*   self.p0 = rotate(self.p0, transform_matrix=transform_matrix)          *)
(*   self.p  = rotate(self.p,  transform_matrix=transform_matrix)          *)
(***************************************************************************)
Rotate(h, v, R) ==
    LET h1 == SetP0(h, v, RotatePoint(R, h.pts[v.p0]))
    IN  SetP(h1, v, RotatePoint(R, h1.pts[v.p]))

VRotate ==
    /\ nops < MaxOps
    /\ UNCHANGED <<cvars, lvars, avars, xvars>>
    /\ \E i \in 1..Len(vecs) : \E R \in Transforms :
          /\ Dim(i) \in {2, 3}
          /\ LET h == Rotate(Heap, vecs[i], R)
             IN  /\ pts' = h.pts
                 /\ bufs' = h.bufs
          /\ vlast' = Did("rotate", i, 0, FALSE, <<>>)
    /\ nops' = nops + 1
    /\ UNCHANGED vecs

(***************************************************************************)
(* Vector.__setattr__ for a named component (nd = 2: x, y; nd = 3: x,y,z): *)
(*   self[k] = value ; self._p.<name> = self._p0.<name> + value            *)
(***************************************************************************)
SetNamed(h, v, k, value) ==
    LET h1 == [h EXCEPT !.bufs[v.buf][k] = value]
    IN  [h1 EXCEPT !.pts[v.p][k] = h1.pts[v.p0][k] + value]

VSetComponent ==
    /\ nops < MaxOps
    /\ UNCHANGED <<cvars, lvars, avars, xvars>>
    /\ \E i \in 1..Len(vecs) : \E name \in Names : \E value \in Scalars :
          /\ Dim(i) \in {2, 3}
          /\ NameIndex(name) <= Dim(i)
          /\ LET h == SetNamed(Heap, vecs[i], NameIndex(name), value)
             IN  /\ pts' = h.pts
                 /\ bufs' = h.bufs
          /\ vlast' = Did("setattr", i, 0, FALSE, <<>>)
    /\ nops' = nops + 1
    /\ UNCHANGED vecs

\* v.p = value  (property setter, lines 582-586)
VSetHead ==
    /\ nops < MaxOps
    /\ UNCHANGED <<cvars, lvars, avars, xvars>>
    /\ \E i \in 1..Len(vecs) : \E value \in Anchors(Dim(i)) :
          /\ LET h == SetP(Heap, vecs[i], value)
             IN  /\ pts' = h.pts
                 /\ bufs' = h.bufs
          /\ vlast' = Did("set_p", i, 0, FALSE, <<>>)
    /\ nops' = nops + 1
    /\ UNCHANGED vecs

\* v.p0 = value  (property setter, lines 593-597)
VSetAnchor ==
    /\ nops < MaxOps
    /\ UNCHANGED <<cvars, lvars, avars, xvars>>
    /\ \E i \in 1..Len(vecs) : \E value \in Anchors(Dim(i)) :
          /\ LET h == SetP0(Heap, vecs[i], value)
             IN  /\ pts' = h.pts
                 /\ bufs' = h.bufs
          /\ vlast' = Did("set_p0", i, 0, FALSE, <<>>)
    /\ nops' = nops + 1
    /\ UNCHANGED vecs

(***************************************************************************)
(* Vector.__iadd__ / __isub__ (lines 459-469):                             *)
(*   super().__iadd__(other) ; self._update_p() ; return self              *)
(* numpy adds in place when other broadcasts to self's shape (equal        *)
(* length, or length 1) and raises ValueError before writing otherwise.    *)
(* other is a number k (oth = 0) or the Vector j.                          *)
(***************************************************************************)
InPlaceOk(n, m) == m = n \/ m = 1

IAddArr(h, v, other, sign) ==
    LET h1 == [h EXCEPT !.bufs[v.buf] =
                  IF sign = 1 THEN ArrAdd(@, other) ELSE ArrSub(@, other)]
    IN  UpdateP(h1, v)

VIAddScalar ==
    /\ nops < MaxOps
    /\ UNCHANGED <<cvars, lvars, avars, xvars>>
    /\ \E i \in 1..Len(vecs) : \E k \in Scalars : \E sign \in {1, -1} :
          /\ LET h == IAddArr(Heap, vecs[i], << k >>, sign)
             IN  /\ pts' = h.pts
                 /\ bufs' = h.bufs
          /\ vlast' = Did(IF sign = 1 THEN "iadd" ELSE "isub", i, 0, FALSE, <<>>)
    /\ nops' = nops + 1
    /\ UNCHANGED vecs

VIAddVector ==
    /\ nops < MaxOps
    /\ UNCHANGED <<cvars, lvars, avars, xvars>>
    /\ \E i \in 1..Len(vecs) : \E j \in 1..Len(vecs) : \E sign \in {1, -1} :
          /\ IF InPlaceOk(Dim(i), Dim(j))
             THEN LET h == IAddArr(Heap, vecs[i], Comp(j), sign)
                  IN  /\ pts' = h.pts
                      /\ bufs' = h.bufs
             ELSE UNCHANGED <<pts, bufs>>
          /\ vlast' = Did(IF sign = 1 THEN "iadd" ELSE "isub", i, j,
                          ~InPlaceOk(Dim(i), Dim(j)), <<>>)
    /\ nops' = nops + 1
    /\ UNCHANGED vecs

(***************************************************************************)
(* Vector.__imul__ with a number (lines 471-475):                          *)
(*   super().__imul__(other) ; self._update_p()                            *)
(***************************************************************************)
IMul(h, v, k) ==
    UpdateP([h EXCEPT !.bufs[v.buf] = ArrScale(k, @)], v)

VIMul ==
    /\ nops < MaxOps
    /\ UNCHANGED <<cvars, lvars, avars, xvars>>
    /\ \E i \in 1..Len(vecs) : \E k \in Scalars :
          /\ LET h == IMul(Heap, vecs[i], k)
             IN  /\ pts' = h.pts
                 /\ bufs' = h.bufs
          /\ vlast' = Did("imul", i, 0, FALSE, <<>>)
    /\ nops' = nops + 1
    /\ UNCHANGED vecs

(***************************************************************************)
(* Vector.normalize (lines 638-640):  self[:] = self.unit_vector           *)
(* unit_vector is self / self.norm.  Applied to the vectors whose norm is  *)
(* exact: one nonzero component c, norm |c|, unit vector sign(c).          *)
(***************************************************************************)
AxisAligned(a) == Cardinality({k \in 1..Len(a) : a[k] # 0}) = 1

UnitVector(a) == [k \in 1..Len(a) |-> Sign(a[k])]

Normalize(h, v) ==
    [h EXCEPT !.bufs[v.buf] = UnitVector(@)]

VNormalize ==
    /\ nops < MaxOps
    /\ UNCHANGED <<cvars, lvars, avars, xvars>>
    /\ \E i \in 1..Len(vecs) :
          /\ AxisAligned(Comp(i))
          /\ LET h == Normalize(Heap, vecs[i])
             IN  /\ pts' = h.pts
                 /\ bufs' = h.bufs
          /\ vlast' = Did("normalize", i, 0, FALSE, <<>>)
    /\ nops' = nops + 1
    /\ UNCHANGED vecs

(***************************************************************************)
(* Vector.rezero (line 668):                                               *)
(*   self[np.where(np.abs(self.__array__()) <= epsilon)] = 0.0             *)
(***************************************************************************)
Epsilons == { 0, 1 }

Rezero(h, v, epsilon) ==
    [h EXCEPT !.bufs[v.buf] =
        [k \in 1..Len(@) |-> IF Abs(@[k]) <= epsilon THEN 0 ELSE @[k]]]

VRezero ==
    /\ nops < MaxOps
    /\ UNCHANGED <<cvars, lvars, avars, xvars>>
    /\ \E i \in 1..Len(vecs) : \E epsilon \in Epsilons :
          /\ LET h == Rezero(Heap, vecs[i], epsilon)
             IN  /\ pts' = h.pts
                 /\ bufs' = h.bufs
          /\ vlast' = Did("rezero", i, 0, FALSE, <<>>)
    /\ nops' = nops + 1
    /\ UNCHANGED vecs

(***************************************************************************)
(* v + w and v - w of two Vectors.  Vector defines no __add__/__sub__, so  *)
(* numpy's ndarray.__add__ runs: it broadcasts (equal lengths, or either   *)
(* of length 1) and raises ValueError otherwise; _check_vector_            *)
(* compatibility (lines 30-33) is not called on this path.  The result is  *)
(* wrapped by __array_wrap__ (line 247) of the left operand:               *)
(* Vector(res, p0=self.p0), an anchor of the result's length unless the    *)
(* left operand is the shorter one; those pairs are left out.              *)
(***************************************************************************)
VAdd ==
    /\ nops < MaxOps
    /\ UNCHANGED <<cvars, lvars, avars, xvars>>
    /\ \E i \in 1..Len(vecs) : \E j \in 1..Len(vecs) : \E sign \in {1, -1} :
          /\ ~(Dim(i) = 1 /\ Dim(j) > 1)
          /\ vlast' = Did(IF sign = 1 THEN "add" ELSE "sub", i, j,
                       ~Broadcastable(Dim(i), Dim(j)),
                       IF ~Broadcastable(Dim(i), Dim(j)) THEN <<>>
                       ELSE IF sign = 1 THEN ArrAdd(Comp(i), Comp(j))
                       ELSE ArrSub(Comp(i), Comp(j)))
    /\ nops' = nops + 1
    /\ UNCHANGED <<pts, bufs, vecs>>

(***************************************************************************)
(* Vector.__mul__ / __div__ (__truediv__) / __floordiv__ / __pow__ (lines  *)
(* 395-457) with an operand that is not a number.  The outcome of a call   *)
(* is [raised, warned, self, num]: whether it raised, whether it emitted a *)
(* UserWarning, whether the object returned is the left operand, and the   *)
(* number returned (<<>> when none).                                       *)
(***************************************************************************)
Dot(a, b) ==
    LET S[k \in 0..Len(a)] == IF k = 0 THEN 0 ELSE S[k - 1] + a[k] * b[k]
    IN  S[Len(a)]

\* _check_vector_compatibility (lines 30-33)
Compatible(a, b) == Len(a) = Len(b)

\* Vector.dot (lines 633-636)
VectorDot(a, b) ==
    IF Compatible(a, b)
    THEN [raised |-> FALSE, warned |-> FALSE, self |-> FALSE,
          num |-> << Dot(a, b) >>]
    ELSE [raised |-> TRUE, warned |-> FALSE, self |-> FALSE, num |-> <<>>]

\* the branches  warnings.warn(...) ; return self
UndefinedOpSilent ==
    [raised |-> FALSE, warned |-> FALSE, self |-> TRUE, num |-> <<>>]

UndefinedOp ==
    [raised |-> FALSE, warned |-> TRUE, self |-> TRUE, num |-> <<>>]

\* v * w of two Vectors: return self.dot(other)
VMulVector ==
    /\ nops < MaxOps
    /\ UNCHANGED <<cvars, lvars, avars, xvars>>
    /\ \E i \in 1..Len(vecs) : \E j \in 1..Len(vecs) :
          \E out \in { VectorDot(Comp(i), Comp(j)) } :
             vlast' = Did("vmul", i, j, out.raised, out)
    /\ nops' = nops + 1
    /\ UNCHANGED <<pts, bufs, vecs>>

\* v / w, v // w, v ** w of two Vectors
VUndefinedVector ==
    /\ nops < MaxOps
    /\ UNCHANGED <<cvars, lvars, avars, xvars>>
    /\ \E i \in 1..Len(vecs) : \E j \in 1..Len(vecs) :
       \E op \in {"vdiv", "vfloordiv", "vpow"} :
          vlast' = Did(op, i, j, UndefinedOp.raised, UndefinedOp)
    /\ nops' = nops + 1
    /\ UNCHANGED <<pts, bufs, vecs>>

\* v * o, v / o, v // o, v ** o with o neither a number nor a Vector
\* (a string, a list, a plain ndarray)
VUndefinedOther ==
    /\ nops < MaxOps
    /\ UNCHANGED <<cvars, lvars, avars, xvars>>
    /\ \E i \in 1..Len(vecs) :
       \E op \in {"omul", "odiv", "ofloordiv", "opow"} :
          vlast' = Did(op, i, 0, UndefinedOp.raised, UndefinedOp)
    /\ nops' = nops + 1
    /\ UNCHANGED <<pts, bufs, vecs>>

(***************************************************************************)
(* Arithmetic of a Vector with a number k.  v * k, v / k and v ** k are    *)
(* Vector.__mul__ / __div__ / __pow__ (lines 396-397, 413-414, 445-446):   *)
(*   return Vector(<elementwise result>, p0=self.p0)                       *)
(* v + k and v - k are numpy's, wrapped by __array_wrap__ (line 247):      *)
(*   Vector(res.__array__(), p0=self.p0)                                   *)
(* Both build the result by the list branch of __new__.  Division is       *)
(* applied where the quotient is exact, powers for exponents >= 0.         *)
(***************************************************************************)
IntPow(x, k) ==
    LET P[n \in 0..k] == IF n = 0 THEN 1 ELSE x * P[n - 1]
    IN  P[k]

ScalarOps == { "sadd", "ssub", "smul", "sdiv", "spow" }

ScalarDefined(op, a, k) ==
    /\ op = "sdiv" => (k # 0 /\ \A x \in 1..Len(a) : Abs(a[x]) % Abs(k) = 0)
    /\ op = "spow" => k >= 0

ScalarResult(op, a, k) ==
    [x \in 1..Len(a) |->
        IF op = "sadd" THEN a[x] + k
        ELSE IF op = "ssub" THEN a[x] - k
        ELSE IF op = "smul" THEN k * a[x]
        ELSE IF op = "sdiv" THEN Sign(a[x]) * Sign(k) * (Abs(a[x]) \div Abs(k))
        ELSE IntPow(a[x], k)]

\* Vector(res, p0=self.p0) for the left operand i
ScalarOpAtOrigin(i, res) == NewVector(res, Zeros(Len(res)), 0)

ScalarOp(i, res) == NewVector(res, AnchorOf(i), 0)

VScalarOp ==
    /\ nops < MaxOps
    /\ UNCHANGED <<cvars, lvars, avars, xvars>>
    /\ \E i \in 1..Len(vecs) : \E op \in ScalarOps : \E k \in Scalars :
          /\ ScalarDefined(op, Comp(i), k)
          /\ ScalarOp(i, ScalarResult(op, Comp(i), k))
          /\ vlast' = Did(op, Len(vecs) + 1, i, FALSE, << k >>)
    /\ nops' = nops + 1

(***************************************************************************)
(* Vector.__new__(v, p0=p0, p=p) for v a list or None (lines 112-157).     *)
(*   v a list:  nd = len(v) ; p0 = Point(p0, nd) ; p = p0 + v              *)
(*   v None:    nd = 3 ; p = Point(p, nd) ; p0 = Point(p0, nd) ; v = p - p0*)
(* Point(None, nd) is the origin of nd components.                         *)
(***************************************************************************)
PointOf(arg, nd) == IF arg = None THEN Zeros(nd) ELSE arg

ConstructAtOrigin(v, p0, p) ==
    IF v # None
    THEN [v |-> v, p0 |-> Zeros(Len(v)), p |-> v]
    ELSE [v |-> PointOf(p, 3), p0 |-> Zeros(3), p |-> PointOf(p, 3)]

Construct(v, p0, p) ==
    IF v # None
    THEN LET a == PointOf(p0, Len(v))
         IN  [v |-> v, p0 |-> a, p |-> ArrAdd(a, v)]
    ELSE LET h == PointOf(p, 3)
             a == PointOf(p0, 3)
         IN  [v |-> ArrSub(h, a), p0 |-> a, p |-> h]

\* arguments v, p0 and p of the constructor
CtorComps == { None, <<1, 2>>, <<1, 0, 2>> }

Points(n) == { [k \in 1..n |-> 1], [k \in 1..n |-> IF k = 2 THEN 0 ELSE k - 1] }

VConstruct ==
    /\ nops < MaxOps
    /\ UNCHANGED <<cvars, lvars, avars, xvars>>
    /\ Len(vecs) < MaxVecs
    /\ \E v \in CtorComps :
       \E p0 \in {None} \cup Points(IF v = None THEN 3 ELSE Len(v)) :
       \E p \in {None} \cup Points(IF v = None THEN 3 ELSE Len(v)) :
       \E r \in { Construct(v, p0, p) } :
          /\ pts' = pts \o << r.p0, r.p >>
          /\ bufs' = Append(bufs, r.v)
          /\ vecs' = Append(vecs, [buf |-> Len(bufs) + 1, p |-> Len(pts) + 2,
                                   p0 |-> Len(pts) + 1, src |-> 0])
          /\ vlast' = Did("ctor", Len(vecs) + 1, 0, FALSE, << v, p0, p >>)
    /\ nops' = nops + 1

(***************************************************************************)
(* Vector.__new__(v) for a list, tuple or array v whose entries at the     *)
(* positions in S are None (lines 114-123):                                *)
(*   try:                                                                  *)
(*       for i, coord in enumerate(v[:]):                                  *)
(*           if coord is None: v[i] = 0.0                                  *)
(*   except TypeError:  v = np.zeros(len(v), dtype=dtype)                  *)
(*   else:              v = np.asarray(v, dtype=dtype)                     *)
(* Item assignment to a tuple raises TypeError, so the first None of a     *)
(* tuple takes the except branch.                                          *)
(***************************************************************************)
SeqKinds == { "list", "tuple", "ndarray" }

\* the entries given, before some of them are replaced by None
NoneComps == { <<1, 2>>, <<1, 0, 2>> }

FillNone(kind, v, S) ==
    IF kind = "tuple" /\ S # {}
    THEN Zeros(Len(v))
    ELSE [k \in 1..Len(v) |-> IF k \in S THEN 0 ELSE v[k]]

VConstructNone ==
    /\ nops < MaxOps
    /\ UNCHANGED <<cvars, lvars, avars, xvars>>
    /\ \E kind \in SeqKinds : \E v \in NoneComps : \E S \in SUBSET (1..Len(v)) :
          /\ NewVector(FillNone(kind, v, S), Zeros(Len(v)), 0)
          /\ vlast' = Did("ctor_none", Len(vecs) + 1, 0, FALSE, << kind, v, S >>)
    /\ nops' = nops + 1

(***************************************************************************)
(* u.angle(v) (lines 619-623) and the module function angle(u, v) (lines   *)
(* 715-727):  arccos(dot(u, v) / (u.norm * v.norm)).                       *)
(* The method calls _check_vector_compatibility first; np.dot of the       *)
(* function raises ValueError for arrays of different lengths.  norm is    *)
(* sqrt(sum(u ** 2)), a numpy float, and np.seterr(all='warn') (line 19)   *)
(* makes 0.0 / 0.0 a RuntimeWarning with result nan, not an exception.     *)
(* The outcome is "nan", or "value" for the arccos of a finite quotient.   *)
(***************************************************************************)
ZeroLength(a) == Dot(a, a) = 0

AngleForms == { "angle_method", "angle_function" }

Angle(a, b) ==
    IF ~Compatible(a, b)
    THEN [raised |-> TRUE, val |-> <<>>]
    ELSE IF ZeroLength(a) \/ ZeroLength(b)
         THEN [raised |-> FALSE, val |-> << "nan" >>]
         ELSE [raised |-> FALSE, val |-> << "value" >>]

VAngle ==
    /\ nops < MaxOps
    /\ UNCHANGED <<cvars, lvars, avars, xvars>>
    /\ \E form \in AngleForms : \E i \in 1..Len(vecs) : \E j \in 1..Len(vecs) :
       \E out \in { Angle(Comp(i), Comp(j)) } :
          vlast' = Did(form, i, j, out.raised, out.val)
    /\ nops' = nops + 1
    /\ UNCHANGED <<pts, bufs, vecs>>

(***************************************************************************)
(* Vector comparisons (lines 372-393).  Components are integers, so        *)
(* np.allclose is equality after broadcasting (a length-1 array broadcasts *)
(* against any length; two different lengths above 1 raise ValueError) and *)
(* norms compare as their squares.  A result is [raised, val].             *)
(***************************************************************************)
AllClose(a, b) == \A k \in 1..BLen(a, b) : At(a, k) = At(b, k)

\* __eq__: self is other or (allclose(self, other) and allclose(p0) and
\* allclose(p))
VectorEq(i, j) ==
    IF i = j THEN [raised |-> FALSE, val |-> TRUE]
    ELSE IF ~Broadcastable(Dim(i), Dim(j))
    THEN [raised |-> TRUE, val |-> FALSE]
    ELSE [raised |-> FALSE,
          val |-> /\ AllClose(Comp(i), Comp(j))
                  /\ AllClose(AnchorOf(i), AnchorOf(j))
                  /\ AllClose(HeadOf(i), HeadOf(j))]

\* __lt__: self.norm < other.norm
VectorLt(i, j) ==
    [raised |-> FALSE, val |-> Dot(Comp(i), Comp(i)) < Dot(Comp(j), Comp(j))]

\* __gt__: not (self < other or self == other)
VectorGt(i, j) ==
    IF VectorLt(i, j).val THEN [raised |-> FALSE, val |-> FALSE]
    ELSE [raised |-> VectorEq(i, j).raised, val |-> ~VectorEq(i, j).val]

\* a > b, b < a and b > a for two Vectors a and b
VCompare ==
    /\ nops < MaxOps
    /\ UNCHANGED <<cvars, lvars, avars, xvars>>
    /\ \E i \in 1..Len(vecs) : \E j \in 1..Len(vecs) :
       \E gt \in { VectorGt(i, j) } : \E rev \in { VectorGt(j, i) } :
          vlast' = Did("compare", i, j, gt.raised \/ rev.raised,
                       << gt.val, VectorLt(j, i).val, rev.val >>)
    /\ nops' = nops + 1
    /\ UNCHANGED <<pts, bufs, vecs>>

(***************************************************************************)
(*                       UnitCell / CrystalCell / SuperCell                *)
(***************************************************************************)
(* 3x3 integer matrices are sequences of rows; vectors are row vectors.    *)
Eye3 == << <<1, 0, 0>>, <<0, 1, 0>>, <<0, 0, 1>> >>

DiagFlat(v) == [i \in 1..3 |-> [j \in 1..3 |-> IF i = j THEN v[i] ELSE 0]]

MatMul(a, b) ==
    [i \in 1..3 |-> [j \in 1..3 |->
        a[i][1] * b[1][j] + a[i][2] * b[2][j] + a[i][3] * b[3][j]]]

VecMat(x, m) ==
    [j \in 1..3 |-> x[1] * m[1][j] + x[2] * m[2][j] + x[3] * m[3][j]]

Det3(m) ==
      m[1][1] * (m[2][2] * m[3][3] - m[2][3] * m[3][2])
    - m[1][2] * (m[2][1] * m[3][3] - m[2][3] * m[3][1])
    + m[1][3] * (m[2][1] * m[3][2] - m[2][2] * m[3][1])

\* adjugate: m^-1 = Adj3(m) / Det3(m)
Adj3(m) ==
    << << m[2][2] * m[3][3] - m[2][3] * m[3][2],
          m[1][3] * m[3][2] - m[1][2] * m[3][3],
          m[1][2] * m[2][3] - m[1][3] * m[2][2] >>,
       << m[2][3] * m[3][1] - m[2][1] * m[3][3],
          m[1][1] * m[3][3] - m[1][3] * m[3][1],
          m[1][3] * m[2][1] - m[1][1] * m[2][3] >>,
       << m[2][1] * m[3][2] - m[2][2] * m[3][1],
          m[1][2] * m[3][1] - m[1][1] * m[3][2],
          m[1][1] * m[2][2] - m[1][2] * m[2][1] >> >>

FloorDiv(a, b) == IF b > 0 THEN a \div b ELSE (0 - a) \div (0 - b)

(***************************************************************************)
(* extras.supercell_lattice_points(S): the lattice points x of the unit    *)
(* lattice that lie in the supercell, i.e. x * S^-1 in [0, 1)^3, listed in *)
(* lexicographic order of x; there are |det S| of them.  The function      *)
(* returns them as supercell fractions x * S^-1, and the setter multiplies *)
(* by the new lattice matrix S * m, which gives the translation x * m.     *)
(***************************************************************************)
Corners == { <<c1, c2, c3>> : c1 \in {0, 1}, c2 \in {0, 1}, c3 \in {0, 1} }

BoxLo(S, k) ==
    LET vals == { VecMat(c, S)[k] : c \in Corners }
    IN  CHOOSE v \in vals : \A w \in vals : v <= w

BoxHi(S, k) ==
    LET vals == { VecMat(c, S)[k] : c \in Corners }
    IN  CHOOSE v \in vals : \A w \in vals : v >= w

InSupercell(x, S) ==
    LET d == Det3(S)
        y == VecMat(x, Adj3(S))
    IN  \A k \in 1..3 : IF d > 0 THEN 0 <= y[k] /\ y[k] < d
                        ELSE d < y[k] /\ y[k] <= 0

SupercellLatticePoints(S) ==
    LET lo1 == BoxLo(S, 1)
        lo2 == BoxLo(S, 2)
        lo3 == BoxLo(S, 3)
        w1 == BoxHi(S, 1) - lo1 + 1
        w2 == BoxHi(S, 2) - lo2 + 1
        w3 == BoxHi(S, 3) - lo3 + 1
        box == [n \in 1..(w1 * w2 * w3) |->
                  << lo1 + ((n - 1) \div (w2 * w3)),
                     lo2 + (((n - 1) \div w3) % w2),
                     lo3 + ((n - 1) % w3) >>]
        Inside(x) == InSupercell(x, S)
    IN  SelectSeq(box, Inside)

\* lattice.wrap_fractional_coordinate applied to the Cartesian point r of
\* a lattice with matrix m: the fractional coordinates r * m^-1 are taken
\* into [0, 1) on every axis
WrapIntoCell(r, m) ==
    LET y == VecMat(r, Adj3(m))
        fl == [k \in 1..3 |-> FloorDiv(y[k], Det3(m))]
    IN  ArrSub(r, VecMat(fl, m))

(***************************************************************************)
(* Values offered as scaling_matrix.  val is the value as a matrix of rows *)
(* (1x1 for a number, 1x3 for a flat sequence, 3x3 for a nested one).      *)
(***************************************************************************)
PyNone == [type |-> "NoneType", val |-> <<>>]

PyStr == [type |-> "str", val |-> <<>>]

PyDict == [type |-> "dict", val |-> <<>>]

PyInt(k) == [type |-> "int", val |-> << <<k>> >>]

PyList(v) == [type |-> "list", val |-> << v >>]

PyNested(m) == [type |-> "list", val |-> m]

NdArray1(v) == [type |-> "ndarray", val |-> << v >>]

NdArray2(m) == [type |-> "ndarray", val |-> m]

Shear == << <<1, 1, 0>>, <<-1, 1, 0>>, <<0, 0, 1>> >>

ScalingValues ==
    { PyNone, PyStr, PyDict, PyInt(1), PyInt(2),
      PyList(<<1, 1, 1>>), PyList(<<2, 1, 1>>), PyList(<<-2, 1, 1>>),
      PyNested(Eye3), PyNested(Shear),
      NdArray1(<<1, 1, 1>>), NdArray1(<<1, 2, 1>>), NdArray2(Eye3) }

\* the matrix a scaling value stands for (k -> k*I, v -> diag(v), M -> M)
MatrixOf(value) ==
    IF Len(value.val) = 3 THEN value.val
    ELSE IF Len(value.val[1]) = 1
         THEN DiagFlat(<<value.val[1][1], value.val[1][1], value.val[1][1]>>)
         ELSE DiagFlat(value.val[1])

ScalingTypes == { "int", "float", "tuple", "list", "ndarray" }

(***************************************************************************)
(* Cell state threaded through a method:                                   *)
(*   cs = [cell, lats, conts, raised]                                      *)
(* cell = [cls, lattice, basis, unit, scaling, wrap]; lattice and basis    *)
(* are heap references (0 is None); unit tells whether unit_cell is U;     *)
(* scaling is the stored _scaling_matrix (<<>> while the attribute is not  *)
(* set).  An atom is [el, mol, id, r] with r its Cartesian position.       *)
(***************************************************************************)
NoCell == [cls |-> "none", lattice |-> 0, basis |-> 0, unit |-> FALSE,
           scaling |-> <<>>, wrap |-> FALSE]

\* a lattice built from its cell matrix: the offset starts at the origin
NewLattice(m) == [m |-> m, off |-> <<0, 0, 0>>]

\* CrystalCell.lattice setter (lines 281-285)
SetLattice(cs, lat) ==
    LET cs1 == [cs EXCEPT !.cell.lattice = lat]
    IN  IF cs1.cell.basis # 0
        THEN [cs1 EXCEPT !.conts[cs1.cell.basis].lat = lat]
        ELSE cs1

\* CrystalCell.unit_cell setter (lines 292-301), value = U
SetUnitCell(cs, U) ==
    LET cs1 == [cs EXCEPT !.cell.unit = TRUE]
        cs2 == IF cs1.cell.basis = 0
               THEN [cs1 EXCEPT !.cell.basis = U.basis] ELSE cs1
    IN  IF cs2.cell.lattice = 0
        THEN [cs2 EXCEPT !.cell.lattice = U.lattice] ELSE cs2

SeqMax(s) == CHOOSE v \in { s[k] : k \in 1..Len(s) } :
                 \A k \in 1..Len(s) : s[k] <= v

\* lines 349-364: every atom of the old basis, at every translation
ReplicasFirstTranslationOnly(basis, tvecs, m, wrap) ==
    [n \in 1..Len(basis) |->
        [el |-> basis[n].el, mol |-> basis[n].mol, id |-> basis[n].id,
         r |-> ArrAdd(basis[n].r, tvecs[1])]]

Replicas(basis, tvecs, m, wrap) ==
    LET nt == Len(tvecs)
        max_mol == SeqMax([k \in 1..Len(basis) |-> basis[k].mol])
    IN  [n \in 1..(Len(basis) * nt) |->
           LET atom == basis[((n - 1) \div nt) + 1]
               i == (n - 1) % nt
               r == ArrAdd(atom.r, tvecs[i + 1])
           IN  [el |-> atom.el,
                mol |-> i * max_mol + atom.mol,
                id |-> atom.id,
                r |-> IF wrap THEN WrapIntoCell(r, m) ELSE r]]

\* lines 341-364 of the scaling_matrix setter, after _scaling_matrix is set
Expand(cs) ==
    LET S == cs.cell.scaling
        mold == cs.lats[cs.cell.lattice].m
        mnew == MatMul(S, mold)
        cs1 == SetLattice([cs EXCEPT !.lats = Append(@, NewLattice(mnew))],
                          Len(cs.lats) + 1)
        pts3 == SupercellLatticePoints(S)
        tvecs == [k \in 1..Len(pts3) |-> VecMat(pts3[k], mold)]
    IN  IF cs1.cell.basis = 0
        THEN [cs1 EXCEPT !.raised = TRUE]            \* None[:]: TypeError
        ELSE LET basis == cs1.conts[cs1.cell.basis].atoms
             IN  IF basis = <<>>
                 THEN [cs1 EXCEPT !.raised = TRUE]   \* max(set()): ValueError
                 ELSE [cs1 EXCEPT
                         !.conts = Append(@,
                            [lat |-> cs1.cell.lattice,
                             atoms |-> Replicas(basis, tvecs, mnew,
                                                cs1.cell.wrap)]),
                         !.cell.basis = Len(cs1.conts) + 1]

\* CrystalCell.scaling_matrix setter (lines 312-364)
SetScalingMatrixResetting(cs, value) ==
    IF value.type = "NoneType" \/ value.type \notin ScalingTypes
    THEN [cs EXCEPT !.cell.scaling = Eye3]
    ELSE IF cs.cell.lattice = 0 THEN cs
    ELSE IF value.type = "ndarray"
            /\ (value.val = << <<1, 1, 1>> >> \/ value.val = Eye3)
    THEN [cs EXCEPT !.cell.scaling = value.val]
    ELSE Expand([cs EXCEPT !.cell.scaling = MatrixOf(value)])

SetScalingMatrix(cs, value) ==
    IF value.type = "NoneType"
    THEN [cs EXCEPT !.cell.scaling = Eye3]
    ELSE IF value.type \notin ScalingTypes THEN cs
    ELSE IF cs.cell.lattice = 0 THEN cs
    ELSE IF value.type = "ndarray"
            /\ (value.val = << <<1, 1, 1>> >> \/ value.val = Eye3)
    THEN [cs EXCEPT !.cell.scaling = value.val]
    ELSE Expand([cs EXCEPT !.cell.scaling = MatrixOf(value)])

(***************************************************************************)
(* CrystalCell.__init__ (lines 163-196).  symbols and coords are the       *)
(* basis and coords arguments (<<>> for None); BasisAtoms(symbols) makes   *)
(* new atoms, each placed at its coordinate under `lattice`.               *)
(***************************************************************************)
CrystalCellInit(cs, cls, lattice, symbols, coords, U, hasU, value, wrap) ==
    LET fresh == [k \in 1..Len(symbols) |->
                    [el |-> symbols[k], mol |-> 0, id |-> 0, r |-> coords[k]]]
        cs1 == IF symbols = <<>>
               THEN [cs EXCEPT !.cell = [NoCell EXCEPT !.cls = cls]]
               ELSE [cs EXCEPT
                       !.conts = Append(@, [lat |-> lattice, atoms |-> fresh]),
                       !.cell = [NoCell EXCEPT !.cls = cls,
                                               !.basis = Len(cs.conts) + 1]]
        cs2 == SetLattice(cs1, lattice)
        cs3 == IF hasU THEN SetUnitCell(cs2, U) ELSE cs2
        cs4 == [cs3 EXCEPT !.cell.wrap = wrap]
    IN  SetScalingMatrix(cs4, value)

\* SuperCell.__init__ lines 465-471: both isinstance checks pass
SuperCellArgsUnchecked(unit, value) == TRUE

SuperCellArgsOk(unit, value) ==
    unit = "UnitCell" /\ value.type \in ScalingTypes

(***************************************************************************)
(* CrystalCell(unit_cell=u, scaling_matrix=value, wrap_coords=wrap) and    *)
(* SuperCell(u, value, wrap_coords=wrap) for u that is not a UnitCell;     *)
(* unit is the name of u's type.  SuperCell raises ValueError at line 466  *)
(* before CrystalCell.__init__ runs; CrystalCell.__init__ sets basis and   *)
(* lattice to None and the unit_cell setter (lines 294-295) raises         *)
(* ValueError unless u is None.                                            *)
(***************************************************************************)
ConstructNoUnitCell(cs, cls, unit, U, value, wrap) ==
    IF cls = "SuperCell" /\ ~SuperCellArgsOk(unit, value)
    THEN [cs EXCEPT !.raised = TRUE]
    ELSE IF unit # "NoneType"
    THEN [cs EXCEPT !.raised = TRUE]
    ELSE CrystalCellInit(cs, cls, 0, <<>>, <<>>, U, FALSE, value, wrap)

CHeap == [cell |-> NoCell, lats |-> lats, conts |-> conts, raised |-> FALSE]

CIdle == [op |-> "none", arg |-> PyNone, raised |-> FALSE]

CDid(op, arg, raised) == [op |-> op, arg |-> arg, raised |-> raised]

\* a constructor call: the class called and the type of its unit_cell argument
CDidNew(op, arg, raised, cls, unit) ==
    [op |-> op, arg |-> arg, raised |-> raised, cls |-> cls, unit |-> unit]

Elements == { "C", "B" }

UnitLattices == { << <<2, 0, 0>>, <<0, 2, 0>>, <<0, 0, 2>> >>,
                  << <<2, 0, 0>>, <<1, 2, 0>>, <<0, 0, 3>> >> }

UnitBases ==
    { << [el |-> "C", mol |-> 1, id |-> 1, r |-> <<0, 0, 0>>] >>,
      << [el |-> "C", mol |-> 1, id |-> 1, r |-> <<0, 0, 0>>],
         [el |-> "N", mol |-> 2, id |-> 2, r |-> <<1, 1, 0>>] >>,
      << [el |-> "C", mol |-> 0, id |-> 1, r |-> <<1, 0, 1>>],
         [el |-> "C", mol |-> 0, id |-> 2, r |-> <<1, 1, 0>>] >> }

\* UnitCell.__init__ (lines 41-62) has run: U owns lattice 1 and container 1
CInit ==
    /\ \E m \in UnitLattices : \E b \in UnitBases :
          /\ lats = << NewLattice(m) >>
          /\ conts = << [lat |-> 1, atoms |-> b] >>
    /\ ucell = [lattice |-> 1, basis |-> 1, wrap |-> FALSE]
    /\ cell = NoCell
    /\ ccopy = NoCell
    /\ clast = CIdle
    /\ cops = 0

UnitAtoms == conts[ucell.basis].atoms

CellAtoms == conts[cell.basis].atoms

\* the number of atoms an expansion by `value` would leave in the basis
Growth(c, value) ==
    IF c.basis = 0 THEN 0
    ELSE Len(conts[c.basis].atoms) *
           (IF value.val = <<>> THEN 1 ELSE Abs(Det3(MatrixOf(value))))

(***************************************************************************)
(* CrystalCell(unit_cell=U, scaling_matrix=value, wrap_coords=wrap) and    *)
(* SuperCell(U, value, wrap_coords=wrap) (lines 464-472).                  *)
(***************************************************************************)
CConstruct ==
    /\ cops < MaxCellOps
    /\ UNCHANGED <<vvars, lvars, avars, xvars>>
    /\ cell.cls = "none"
    /\ \E cls \in {"CrystalCell", "SuperCell"} : \E value \in ScalingValues :
       \E wrap \in BOOLEAN :
          IF cls = "SuperCell" /\ ~SuperCellArgsOk("UnitCell", value)
          THEN /\ clast' = CDidNew("construct", value, TRUE, cls, "UnitCell")
               /\ UNCHANGED <<lats, conts, cell>>               \* ValueError
          ELSE \E cs \in { CrystalCellInit(CHeap, cls, 0, <<>>, <<>>, ucell,
                                              TRUE, value, wrap) } :
                   /\ lats' = cs.lats
                   /\ conts' = cs.conts
                   /\ cell' = IF cs.raised THEN cell ELSE cs.cell
                   /\ clast' = CDidNew("construct", value, cs.raised, cls,
                                       "UnitCell")
    /\ cops' = cops + 1
    /\ UNCHANGED <<ucell, ccopy>>

NotUnitCells == { "NoneType", "str" }

CConstructNoUnitCell ==
    /\ cops < MaxCellOps
    /\ UNCHANGED <<vvars, lvars, avars, xvars>>
    /\ cell.cls = "none"
    /\ \E cls \in {"CrystalCell", "SuperCell"} : \E unit \in NotUnitCells :
       \E value \in ScalingValues : \E wrap \in BOOLEAN :
       \E cs \in { ConstructNoUnitCell(CHeap, cls, unit, ucell, value, wrap) } :
          /\ lats' = cs.lats
          /\ conts' = cs.conts
          /\ cell' = IF cs.raised THEN cell ELSE cs.cell
          /\ clast' = CDidNew("construct_no_unit_cell", value, cs.raised, cls,
                              unit)
    /\ cops' = cops + 1
    /\ UNCHANGED <<ucell, ccopy>>

\* cell.scaling_matrix = value
CSetScaling ==
    /\ cops < MaxCellOps
    /\ UNCHANGED <<vvars, lvars, avars, xvars>>
    /\ cell.cls # "none"
    /\ \E value \in ScalingValues :
          /\ Growth(cell, value) <= MaxAtoms
          /\ \E cs \in { SetScalingMatrix([CHeap EXCEPT !.cell = cell],
                                           value) } :
                 /\ lats' = cs.lats
                 /\ conts' = cs.conts
                 /\ cell' = cs.cell
                 /\ clast' = CDid("set_scaling", value, cs.raised)
    /\ cops' = cops + 1
    /\ UNCHANGED <<ucell, ccopy>>

(***************************************************************************)
(* CrystalCell.update_basis(element, index, step) (lines 409-425).         *)
(* BasisAtoms.__setitem__(i, element) retypes the atom at position i.      *)
(*   index = -1 stands for None; step = 0 for None (the default).          *)
(***************************************************************************)
Retype(atoms, idx, element) ==
    [k \in 1..Len(atoms) |->
        IF (k - 1) \in idx THEN [atoms[k] EXCEPT !.el = element]
        ELSE atoms[k]]

\* range(index, n, step)
PyRange(index, n, step) ==
    { i \in 0..(n - 1) : i >= index /\ (i - index) % step = 0 }

UpdateBasis(cs, U, element, index, step) ==
    LET nU == Len(cs.conts[U.basis].atoms)
        st == IF step = 0 THEN nU ELSE step
        uidx == IF index = -1 THEN 0..(nU - 1) ELSE PyRange(index, nU, st)
        cs1 == [cs EXCEPT !.conts[U.basis].atoms = Retype(@, uidx, element)]
        nB == Len(cs1.conts[cs1.cell.basis].atoms)
        bidx == IF index = -1 THEN 0..(nB - 1) ELSE PyRange(index, nB, st)
    IN  [cs1 EXCEPT !.conts[cs1.cell.basis].atoms = Retype(@, bidx, element)]

CUpdateBasis ==
    /\ cops < MaxCellOps
    /\ UNCHANGED <<vvars, lvars, avars, xvars>>
    /\ cell.cls # "none"
    /\ cell.unit
    /\ cell.basis # 0
    /\ \E element \in Elements : \E index \in -1..(Len(UnitAtoms) - 1) :
       \E step \in {0, 2} :
          /\ \E cs \in { UpdateBasis([CHeap EXCEPT !.cell = cell], ucell,
                                      element, index, step) } :
                 conts' = cs.conts
          /\ clast' = [op |-> "update_basis",
                       arg |-> [type |-> element, val |-> << <<index, step>> >>],
                       raised |-> FALSE]
    /\ cops' = cops + 1
    /\ UNCHANGED <<lats, ucell, cell, ccopy>>

(***************************************************************************)
(* CrystalCell.translate_basis(t, cartesian, wrap_coords) (lines 391-407): *)
(*   if cartesian: t = self.lattice.cartesian_to_fractional(t)             *)
(*   basis = self.basis[:] ; self.basis = BasisAtoms()                     *)
(*   for atom in basis:                                                    *)
(*       xs, ys, zs = atom.rs + t                                          *)
(*       if wrap_coords: xs, ys, zs = wrap_fractional_coordinate(...)      *)
(*       self.basis.append(BasisAtom(atom.element, mol=atom.mol,           *)
(*                         id=atom.id, lattice=self.lattice, xs, ys, zs))  *)
(* Positions are kept Cartesian: adding the fractional t is adding the     *)
(* Cartesian vector tc = t * m, and a Cartesian t converted to fractional  *)
(* and added is t itself.  A fractional t is a vector of integers.         *)
(***************************************************************************)
TranslatedAtomsUnwrapped(basis, tc, m, wrap) ==
    [n \in 1..Len(basis) |->
        [el |-> basis[n].el, mol |-> basis[n].mol, id |-> basis[n].id,
         r |-> ArrAdd(basis[n].r, tc)]]

TranslatedAtoms(basis, tc, m, wrap) ==
    [n \in 1..Len(basis) |->
        LET r == ArrAdd(basis[n].r, tc)
        IN  [el |-> basis[n].el, mol |-> basis[n].mol, id |-> basis[n].id,
             r |-> IF wrap THEN WrapIntoCell(r, m) ELSE r]]

TranslateBasis(cs, t, cartesian, wrap) ==
    IF cartesian /\ cs.cell.lattice = 0
    THEN [cs EXCEPT !.raised = TRUE]          \* None has no such attribute
    ELSE IF cs.cell.basis = 0
    THEN [cs EXCEPT !.raised = TRUE]          \* None[:]: TypeError
    ELSE LET m == cs.lats[cs.cell.lattice].m
             tc == IF cartesian THEN t ELSE VecMat(t, m)
         IN  [cs EXCEPT
                !.conts = Append(@,
                   [lat |-> cs.cell.lattice,
                    atoms |-> TranslatedAtoms(cs.conts[cs.cell.basis].atoms,
                                              tc, m, wrap)]),
                !.cell.basis = Len(cs.conts) + 1]

Translations == { <<1, 0, 0>>, <<-1, 2, 3>> }

CTranslateBasis ==
    /\ cops < MaxCellOps
    /\ UNCHANGED <<vvars, lvars, avars, xvars>>
    /\ cell.cls # "none"
    /\ \E t \in Translations : \E cartesian \in BOOLEAN : \E wrap \in BOOLEAN :
       \E cs \in { TranslateBasis([CHeap EXCEPT !.cell = cell], t, cartesian,
                                   wrap) } :
          /\ conts' = cs.conts
          /\ cell' = cs.cell
          /\ clast' = [op |-> "translate_basis",
                       arg |-> [type |-> "list", val |-> << t >>],
                       raised |-> cs.raised,
                       cartesian |-> cartesian, wrap |-> wrap]
    /\ cops' = cops + 1
    /\ UNCHANGED <<lats, ucell, ccopy>>

(***************************************************************************)
(* CrystalCell.translate(t) (lines 382-389) and UnitCell.translate(t)      *)
(* (lines 135-138): lattice.translate(t) moves the lattice offset by t and *)
(* basis.translate(t) moves every atom of the container by t.              *)
(***************************************************************************)
LatticeTranslate(cs, lat, t) ==
    [cs EXCEPT !.lats[lat].off = ArrAdd(@, t)]

BasisTranslate(cs, basis, t) ==
    [cs EXCEPT !.conts[basis].atoms =
        [k \in 1..Len(@) |-> [@[k] EXCEPT !.r = ArrAdd(@, t)]]]

UnitCellTranslate(cs, U, t) ==
    BasisTranslate(LatticeTranslate(cs, U.lattice, t), U.basis, t)

CellTranslate(cs, U, t) ==
    LET cs1 == IF cs.cell.lattice # 0
               THEN LatticeTranslate(cs, cs.cell.lattice, t) ELSE cs
        cs2 == IF cs1.cell.basis # 0
               THEN BasisTranslate(cs1, cs1.cell.basis, t) ELSE cs1
    IN  IF cs2.cell.unit THEN UnitCellTranslate(cs2, U, t) ELSE cs2

CTranslate ==
    /\ cops < MaxCellOps
    /\ UNCHANGED <<vvars, lvars, avars, xvars>>
    /\ cell.cls # "none"
    /\ \E t \in Translations :
       \E cs \in { CellTranslate([CHeap EXCEPT !.cell = cell], ucell, t) } :
          /\ lats' = cs.lats
          /\ conts' = cs.conts
          /\ clast' = CDid("translate", [type |-> "list", val |-> << t >>],
                           cs.raised)
    /\ cops' = cops + 1
    /\ UNCHANGED <<cell, ucell, ccopy>>

(***************************************************************************)
(* CrystalCell.rotate (lines 371-380) and UnitCell.rotate (lines 128-133)  *)
(* by a quarter turn about the z axis, anchor_point left None: the anchor  *)
(* is read from self.lattice.offset before the test for lattice None.      *)
(* lattice.rotate turns the lattice vectors, basis.rotate turns every atom *)
(* about the anchor.                                                       *)
(***************************************************************************)
QuarterTurn(v) == <<0 - v[2], v[1], v[3]>>

RotateAbout(r, anchor) == ArrAdd(anchor, QuarterTurn(ArrSub(r, anchor)))

LatticeRotate(cs, lat, anchor) ==
    [cs EXCEPT !.lats[lat].m = [i \in 1..3 |-> QuarterTurn(@[i])],
               !.lats[lat].off = RotateAbout(@, anchor)]

BasisRotate(cs, basis, anchor) ==
    [cs EXCEPT !.conts[basis].atoms =
        [k \in 1..Len(@) |-> [@[k] EXCEPT !.r = RotateAbout(@, anchor)]]]

UnitCellRotate(cs, U, anchor) ==
    BasisRotate(LatticeRotate(cs, U.lattice, anchor), U.basis, anchor)

CellRotate(cs, U) ==
    IF cs.cell.lattice = 0
    THEN [cs EXCEPT !.raised = TRUE]      \* None.offset: AttributeError
    ELSE LET anchor == cs.lats[cs.cell.lattice].off
             cs1 == LatticeRotate(cs, cs.cell.lattice, anchor)
             cs2 == IF cs1.cell.basis # 0
                    THEN BasisRotate(cs1, cs1.cell.basis, anchor) ELSE cs1
         IN  IF cs2.cell.unit THEN UnitCellRotate(cs2, U, anchor) ELSE cs2

CRotate ==
    /\ cops < MaxCellOps
    /\ UNCHANGED <<vvars, lvars, avars, xvars>>
    /\ cell.cls # "none"
    /\ \E cs \in { CellRotate([CHeap EXCEPT !.cell = cell], ucell) } :
          /\ lats' = cs.lats
          /\ conts' = cs.conts
          /\ clast' = CDid("rotate", PyNone, cs.raised)
    /\ cops' = cops + 1
    /\ UNCHANGED <<cell, ucell, ccopy>>

(***************************************************************************)
(* copy.deepcopy(cell): CrystalCell.__deepcopy__ (lines 198-201) calls     *)
(*   obj = self.__class__ called with the keywords of self.todict()       *)
(* with todict() (lines 438-451) giving lattice, basis (symbols), coords,  *)
(* wrap_coords, unit_cell and scaling_matrix (as a nested list).           *)
(* SuperCell.__init__ accepts none of lattice, basis, coords: TypeError.   *)
(* copy.deepcopy(U): UnitCell.__deepcopy__ (lines 79-82) with todict()     *)
(* (lines 140-144): UnitCell(lattice, basis=symbols, coords, wrap_coords). *)
(***************************************************************************)
Symbols(atoms) == [k \in 1..Len(atoms) |-> atoms[k].el]

Coords(atoms) == [k \in 1..Len(atoms) |-> atoms[k].r]

DeepCopyCell(cs, c, U) ==
    IF c.cls = "SuperCell" THEN [cs EXCEPT !.raised = TRUE]
    ELSE CrystalCellInit(cs, c.cls, c.lattice,
                         Symbols(cs.conts[c.basis].atoms),
                         Coords(cs.conts[c.basis].atoms),
                         U, c.unit, PyNested(c.scaling), c.wrap)

DeepCopyUnitCell(cs, U) ==
    [cs EXCEPT
       !.conts = Append(@,
          [lat |-> U.lattice,
           atoms |-> [k \in 1..Len(cs.conts[U.basis].atoms) |->
                        [el |-> cs.conts[U.basis].atoms[k].el,
                         mol |-> 0, id |-> 0,
                         r |-> cs.conts[U.basis].atoms[k].r]]]),
       !.cell = [NoCell EXCEPT !.cls = "UnitCell", !.lattice = U.lattice,
                               !.basis = Len(cs.conts) + 1,
                               !.wrap = U.wrap]]

CDeepCopy ==
    /\ cops < MaxCellOps
    /\ UNCHANGED <<vvars, lvars, avars, xvars>>
    /\ cell.cls # "none"
    /\ cell.basis # 0
    /\ cell.scaling # <<>>
    /\ ccopy.cls = "none"
    /\ \E which \in {"cell", "unit"} :
          /\ which = "cell" => Growth(cell, PyNested(cell.scaling)) <= MaxAtoms
          /\ \E cs \in { IF which = "cell"
                          THEN DeepCopyCell(CHeap, cell, ucell)
                          ELSE DeepCopyUnitCell(CHeap, ucell) } :
                 /\ lats' = cs.lats
                 /\ conts' = cs.conts
                 /\ ccopy' = IF cs.raised THEN ccopy ELSE cs.cell
                 /\ clast' = [op |-> "deepcopy",
                              arg |-> [type |-> which, val |-> <<>>],
                              raised |-> cs.raised]
    /\ cops' = cops + 1
    /\ UNCHANGED <<ucell, cell>>

(***************************************************************************)
(* CrystalCell.__eq__ (lines 223-236) of two cells x and y; same tells     *)
(* whether they are one object.  The result is "True", "False" or "None"   *)
(* (no branch taken: the method falls off its end).  Reading               *)
(* scaling_matrix while _scaling_matrix was never assigned raises          *)
(* AttributeError.  The setter never stores None, and both cells hold the  *)
(* same UnitCell object U, so unit_cell == unit_cell is True by identity   *)
(* (line 88).                                                              *)
(***************************************************************************)
Shape(m) == << Len(m), Len(m[1]) >>

PyBool(b) == IF b THEN "True" ELSE "False"

CellEq(x, y, same) ==
    IF x.scaling = <<>> \/ y.scaling = <<>>
    THEN [raised |-> TRUE, val |-> "None"]
    ELSE IF x.unit /\ y.unit /\ Shape(x.scaling) = Shape(y.scaling)
    THEN [raised |-> FALSE, val |-> PyBool(same \/ x.scaling = y.scaling)]
    ELSE IF x.unit /\ y.unit
    THEN [raised |-> FALSE, val |-> PyBool(same)]
    ELSE [raised |-> FALSE, val |-> "None"]

IsCrystalCell(c) == c.cls \in { "CrystalCell", "SuperCell" }

\* x == y for x and y among the cell and its copy
CEq ==
    /\ cops < MaxCellOps
    /\ UNCHANGED <<vvars, lvars, avars, xvars>>
    /\ IsCrystalCell(cell)
    /\ \E x \in { "cell", "copy" } : \E y \in { "cell", "copy" } :
          /\ ("copy" \in { x, y }) => IsCrystalCell(ccopy)
          /\ \E res \in { CellEq(IF x = "cell" THEN cell ELSE ccopy,
                                 IF y = "cell" THEN cell ELSE ccopy,
                                 x = y) } :
                clast' = [op |-> "eq", arg |-> [type |-> x, val |-> <<>>],
                          other |-> y, raised |-> res.raised,
                          val |-> res.val]
    /\ cops' = cops + 1
    /\ UNCHANGED <<lats, conts, cell, ucell, ccopy>>

(***************************************************************************)
(*                  CrystalLattice (crystallography/_base.py)              *)
(* The lattice has lengths a, b, c and right angles, for which             *)
(* ortho_matrix (lines 277-292) is diag(a, b, c); orientation_matrix is a  *)
(* constructor argument and offset a public attribute (line 74).  A point  *)
(* is a sequence of three numbers; None is the empty sequence.             *)
(***************************************************************************)
RotZ == << <<0, -1, 0>>, <<1, 0, 0>>, <<0, 0, 1>> >>

Lengths == { <<1, 1, 1>>, <<2, 1, 3>> }

Orientations == { Eye3, RotZ }

\* alpha, beta, gamma in degrees
RightAngles == <<90, 90, 90>>

\* arguments a, b, c and alpha, beta, gamma of CrystalLattice(...)
CtorLengths == Lengths \cup { <<0, 1, 1>>, <<1, -1, 2>> }

CtorAngles == { RightAngles, <<0, 90, 90>>, <<90, 180, 90>>, <<90, 90, 200>> }

Points3 == { <<0, 0, 0>>, <<1, 0, 2>>, <<2, 3, 1>> }

\* matrix * column vector
MatVec(m, v) ==
    [i \in 1..3 |-> m[i][1] * v[1] + m[i][2] * v[2] + m[i][3] * v[3]]

\* CrystalLattice.ortho_matrix (lines 277-292) at alpha = beta = gamma = 90
OrthoMatrix(L) == DiagFlat(L.abc)

\* CrystalLattice.fractional_to_cartesian (lines 239-241); reshape(3, 1) of
\* anything that has not three entries raises ValueError
FractionalToCartesian(L, v) ==
    IF Len(v) # 3
    THEN [val |-> None, raised |-> TRUE]
    ELSE [val |-> ArrAdd(MatVec(MatMul(L.orientation, OrthoMatrix(L)), v),
                         L.offset),
          raised |-> FALSE]

\* CrystalLattice.cartesian_to_fractional (lines 243-244): the body is pass
CartesianToFractional(L, v) == None

LIdle == [op |-> "none", arg |-> None, val |-> None, raised |-> FALSE]

\* CrystalLattice.__init__ (lines 69-109) has run
LInit ==
    /\ \E abc \in Lengths : \E o \in Orientations :
          xlat = [abc |-> abc, angles |-> RightAngles, orientation |-> o,
                  offset |-> Zeros(3)]
    /\ llast = LIdle
    /\ lops = 0

(***************************************************************************)
(* CrystalLattice(a, b, c, alpha, beta, gamma) (lines 69-109): offset and  *)
(* orientation_matrix are set to zero and the identity, the six arguments  *)
(* are stored as given; ortho_matrix is evaluated only when a cell_matrix  *)
(* is given, so nothing in the constructor can raise for numbers.          *)
(***************************************************************************)
CrystalLatticeInit(abc, angles) ==
    [lattice |-> [abc |-> abc, angles |-> angles, orientation |-> Eye3,
                  offset |-> Zeros(3)],
     raised |-> FALSE]

LConstruct ==
    /\ lops < MaxLatOps
    /\ UNCHANGED <<vvars, cvars, avars, xvars>>
    /\ \E abc \in CtorLengths : \E angles \in CtorAngles :
       \E res \in { CrystalLatticeInit(abc, angles) } :
          /\ xlat' = IF res.raised THEN xlat ELSE res.lattice
          /\ llast' = [op |-> "construct", arg |-> << abc, angles >>,
                       val |-> None, raised |-> res.raised]
    /\ lops' = lops + 1

\* L.offset = o
LSetOffset ==
    /\ lops < MaxLatOps
    /\ UNCHANGED <<vvars, cvars, avars, xvars>>
    /\ \E o \in Points3 :
          /\ xlat' = [xlat EXCEPT !.offset = o]
          /\ llast' = [op |-> "set_offset", arg |-> o, val |-> None,
                       raised |-> FALSE]
    /\ lops' = lops + 1

\* L.fractional_to_cartesian(v)
LFractionalToCartesian ==
    /\ lops < MaxLatOps
    /\ xlat.angles = RightAngles
    /\ UNCHANGED <<vvars, cvars, avars, xvars>>
    /\ \E v \in Points3 :
          \E res \in { FractionalToCartesian(xlat, v) } :
             llast' = [op |-> "fractional_to_cartesian", arg |-> v,
                       val |-> res.val, raised |-> res.raised]
    /\ lops' = lops + 1
    /\ UNCHANGED xlat

\* L.cartesian_to_fractional(p)
LCartesianToFractional ==
    /\ lops < MaxLatOps
    /\ xlat.angles = RightAngles
    /\ UNCHANGED <<vvars, cvars, avars, xvars>>
    /\ \E p \in Points3 :
          llast' = [op |-> "cartesian_to_fractional", arg |-> p,
                    val |-> CartesianToFractional(xlat, p), raised |-> FALSE]
    /\ lops' = lops + 1
    /\ UNCHANGED xlat

\* L.fractional_to_cartesian(L.cartesian_to_fractional(p))
LRoundTrip ==
    /\ lops < MaxLatOps
    /\ xlat.angles = RightAngles
    /\ UNCHANGED <<vvars, cvars, avars, xvars>>
    /\ \E p \in Points3 :
          \E res \in { FractionalToCartesian(xlat,
                           CartesianToFractional(xlat, p)) } :
             llast' = [op |-> "round_trip", arg |-> p,
                       val |-> res.val, raised |-> res.raised]
    /\ lops' = lops + 1
    /\ UNCHANGED xlat

LatNext ==
    \/ LConstruct
    \/ LSetOffset
    \/ LFractionalToCartesian
    \/ LCartesianToFractional
    \/ LRoundTrip

(***************************************************************************)
(*                 Atoms (sknano/core/atoms/_atoms.py)                     *)
(*                                                                         *)
(* An atom object has an element, a mass m, a position r and (CNAtom) a    *)
(* coordination number CN.  The container holds references to atom         *)
(* objects in the list _data; _coords, _masses and _symbols are attributes *)
(* that the properties of the same names overwrite on every read.          *)
(***************************************************************************)
AtomElements == { "Ar", "B", "C" }

\* atomic number of an element
Z(el) == IF el = "Ar" THEN 18 ELSE IF el = "B" THEN 5 ELSE 6

AtomMasses == { 1, 3 }

AtomPositions == { <<0, 0, 0>>, <<4, 0, 8>>, <<-4, 8, 4>> }

NewAtom(el, m, r, cn) == [el |-> el, m |-> m, r |-> r, CN |-> cn]

NewAtoms ==
    { NewAtom("Ar", 1, <<0, 0, 0>>, 0), NewAtom("B", 1, <<4, 0, 8>>, 0),
      NewAtom("C", 1, <<-4, 8, 4>>, 0) }

EmptyCache == [coords |-> <<>>, masses |-> <<>>, symbols |-> <<>>]

AIdle == [op |-> "none", arg |-> <<>>, val |-> <<>>, raised |-> FALSE]

\* Atoms(atoms=[...]) (lines 42-60): _data holds the given atom objects
AInit ==
    /\ \E a \in NewAtoms : \E b \in NewAtoms : \E n \in 0..2 :
          objs = SubSeq(<< a, [b EXCEPT !.m = 3, !.CN = 1] >>, 1, n)
    /\ data = [k \in 1..Len(objs) |-> k]
    /\ cache = EmptyCache
    /\ akind \in { "Atoms", "CNAtoms" }
    /\ alast = AIdle
    /\ aops = 0

\* Python list index: a negative index counts from the end
PyIndex(i, n) == IF i < 0 THEN i + n ELSE i

InsertAt(s, k, x) == SubSeq(s, 1, k) \o << x >> \o SubSeq(s, k + 1, Len(s))

RemoveAt(s, k) == SubSeq(s, 1, k - 1) \o SubSeq(s, k + 1, Len(s))

\* list.insert(index, x): an index beyond either end is clamped to it
ListInsert(s, index, x) ==
    LET i == PyIndex(index, Len(s))
        k == IF i < 0 THEN 0 ELSE IF i > Len(s) THEN Len(s) ELSE i
    IN  InsertAt(s, k, x)

\* Atoms.insert(index, atom) (line 146); append(atom) is
\* MutableSequence.append, which calls insert(len(self), atom)
AInsert ==
    /\ aops < MaxAtomOps
    /\ UNCHANGED <<vvars, cvars, lvars, xvars>>
    /\ Len(data) < MaxData
    /\ \E atom \in NewAtoms : \E index \in {-1, 0, 1, Len(data)} :
          /\ objs' = Append(objs, atom)
          /\ data' = ListInsert(data, index, Len(objs) + 1)
          /\ alast' = [op |-> IF index = Len(data) THEN "append" ELSE "insert",
                       arg |-> << index >>, val |-> <<>>, raised |-> FALSE]
    /\ aops' = aops + 1
    /\ UNCHANGED <<cache, akind>>

\* Atoms.__delitem__(index) (line 82): del self._data[index]
ADelete ==
    /\ aops < MaxAtomOps
    /\ UNCHANGED <<vvars, cvars, lvars, xvars>>
    /\ \E index \in -1..Len(data) :
       \E i \in { PyIndex(index, Len(data)) } :
          IF i < 0 \/ i >= Len(data)
          THEN /\ alast' = [op |-> "delete", arg |-> << index >>, val |-> <<>>,
                            raised |-> TRUE]               \* IndexError
               /\ UNCHANGED data
          ELSE /\ data' = RemoveAt(data, i + 1)
               /\ alast' = [op |-> "delete", arg |-> << index >>, val |-> <<>>,
                            raised |-> FALSE]
    /\ aops' = aops + 1
    /\ UNCHANGED <<objs, cache, akind>>

\* Atoms.__setitem__(index, atom) (line 120): self._data[index] = atom
ASetItem ==
    /\ aops < MaxAtomOps
    /\ UNCHANGED <<vvars, cvars, lvars, xvars>>
    /\ \E atom \in NewAtoms : \E index \in -1..Len(data) :
       \E i \in { PyIndex(index, Len(data)) } :
          IF i < 0 \/ i >= Len(data)
          THEN /\ alast' = [op |-> "setitem", arg |-> << index >>, val |-> <<>>,
                            raised |-> TRUE]               \* IndexError
               /\ UNCHANGED <<objs, data>>
          ELSE /\ objs' = Append(objs, atom)
               /\ data' = [data EXCEPT ![i + 1] = Len(objs) + 1]
               /\ alast' = [op |-> "setitem", arg |-> << index >>, val |-> <<>>,
                            raised |-> FALSE]
    /\ aops' = aops + 1
    /\ UNCHANGED <<cache, akind>>

\* atom.r = r and atom.m = m for an atom of the container
ASetPosition ==
    /\ aops < MaxAtomOps
    /\ UNCHANGED <<vvars, cvars, lvars, xvars>>
    /\ \E k \in 1..Len(data) : \E r \in AtomPositions :
          /\ objs' = [objs EXCEPT ![data[k]].r = r]
          /\ alast' = [op |-> "set_r", arg |-> << k >>, val |-> <<>>,
                       raised |-> FALSE]
    /\ aops' = aops + 1
    /\ UNCHANGED <<data, cache, akind>>

ASetMass ==
    /\ aops < MaxAtomOps
    /\ UNCHANGED <<vvars, cvars, lvars, xvars>>
    /\ \E k \in 1..Len(data) : \E m \in AtomMasses :
          /\ objs' = [objs EXCEPT ![data[k]].m = m]
          /\ alast' = [op |-> "set_m", arg |-> << k >>, val |-> <<>>,
                       raised |-> FALSE]
    /\ aops' = aops + 1
    /\ UNCHANGED <<data, cache, akind>>

(***************************************************************************)
(* Atoms.coords / masses / symbols (lines 186-206):                        *)
(*   coords = [atom.r for atom in self._data]                              *)
(*   self._coords = coords[:] ; return np.asarray(self._coords)            *)
(* and likewise atom.m and atom.symbol.                                    *)
(***************************************************************************)
Aggregates == { "coords", "masses", "symbols" }

AggregateStored(which, o, d, c) == c[which]

Aggregate(which, o, d, c) ==
    [k \in 1..Len(d) |->
        IF which = "coords" THEN o[d[k]].r
        ELSE IF which = "masses" THEN o[d[k]].m
        ELSE o[d[k]].el]

ARead ==
    /\ aops < MaxAtomOps
    /\ UNCHANGED <<vvars, cvars, lvars, xvars>>
    /\ \E which \in Aggregates :
       \E val \in { Aggregate(which, objs, data, cache) } :
          /\ cache' = [cache EXCEPT ![which] = val]
          /\ alast' = [op |-> which, arg |-> <<>>, val |-> val,
                       raised |-> FALSE]
    /\ aops' = aops + 1
    /\ UNCHANGED <<objs, data, akind>>

(***************************************************************************)
(* Atoms.clip_bounds(region, center_before_clipping) (lines 228-262):      *)
(*   if center_before_clipping: CM0 = self.CM ; self.translate(-CM0)       *)
(*   self._data = atoms[(x <= max) & (y <= max) & (z <= max)               *)
(*                      & (x >= min) & (y >= min) & (z >= min)].tolist()   *)
(*   if CM0 is not None: self.translate(CM0)                               *)
(* CM (lines 161-173) is sum(m * r) / sum(m); translate (line 344) moves   *)
(* every atom of _data.  A region is [lo, hi], its limits per axis.        *)
(* Centring is applied where the centre of mass has integer coordinates.   *)
(* Reading self.x of an empty container raises KeyError.                   *)
(***************************************************************************)
Regions == { [lo |-> <<0, 0, 0>>, hi |-> <<4, 8, 8>>],
             [lo |-> <<-4, -4, -4>>, hi |-> <<2, 4, 4>>] }

SeqSum(s) ==
    LET S[k \in 0..Len(s)] == IF k = 0 THEN 0 ELSE S[k - 1] + s[k]
    IN  S[Len(s)]

TotalMass(o, d) == SeqSum([k \in 1..Len(d) |-> o[d[k]].m])

\* sum(m * r), the centre of mass times the total mass
MassMoment(o, d) ==
    [x \in 1..3 |-> SeqSum([k \in 1..Len(d) |-> o[d[k]].m * o[d[k]].r[x]])]

CMExact(o, d) ==
    /\ Len(d) > 0
    /\ \A x \in 1..3 : MassMoment(o, d)[x] % TotalMass(o, d) = 0

CM(o, d) == [x \in 1..3 |-> MassMoment(o, d)[x] \div TotalMass(o, d)]

\* Atoms.translate(t): every atom of d moves by t
TranslateAtoms(o, d, t) ==
    [j \in 1..Len(o) |->
        IF \E k \in 1..Len(d) : d[k] = j
        THEN [o[j] EXCEPT !.r = ArrAdd(@, t)] ELSE o[j]]

InsideStrict(r, region) ==
    \A x \in 1..3 : r[x] < region.hi[x] /\ r[x] > region.lo[x]

Inside(r, region) ==
    \A x \in 1..3 : r[x] <= region.hi[x] /\ r[x] >= region.lo[x]

Kept(o, d, region) ==
    LET F[k \in 0..Len(d)] ==
            IF k = 0 THEN <<>>
            ELSE IF Inside(o[d[k]].r, region) THEN Append(F[k - 1], d[k])
                 ELSE F[k - 1]
    IN  F[Len(d)]

ClipBounds(o, d, region, center) ==
    IF Len(d) = 0
    THEN [objs |-> o, data |-> d, raised |-> TRUE]
    ELSE LET cm0 == CM(o, d)
             o1 == IF center THEN TranslateAtoms(o, d, ArrScale(-1, cm0))
                   ELSE o
             d1 == Kept(o1, d, region)
             o2 == IF center THEN TranslateAtoms(o1, d1, cm0) ELSE o1
         IN  [objs |-> o2, data |-> d1, raised |-> FALSE]

AClipBounds ==
    /\ aops < MaxAtomOps
    /\ UNCHANGED <<vvars, cvars, lvars, xvars>>
    /\ \E region \in Regions : \E center \in BOOLEAN :
          /\ center => CMExact(objs, data)
          /\ \E res \in { ClipBounds(objs, data, region, center) } :
                /\ objs' = res.objs
                /\ data' = res.data
                /\ alast' = [op |-> "clip_bounds", arg |-> << region, center >>,
                             val |-> <<>>, raised |-> res.raised]
    /\ aops' = aops + 1
    /\ UNCHANGED <<cache, akind>>

(***************************************************************************)
(* Atoms.sort(key=None) (lines 153-159): with no key,                      *)
(*   self._data.sort(key=attrgetter('element', 'Z', 'z'))                  *)
(* CNAtoms.sort(key=attrgetter('CN')) (cn_atoms.py lines 127-128) passes   *)
(* its own default key to Atoms.sort.  list.sort is stable.  Element       *)
(* symbols compare as strings: "Ar" < "B" < "C".                           *)
(***************************************************************************)
ElementRank(el) == IF el = "Ar" THEN 1 ELSE IF el = "B" THEN 2 ELSE 3

\* the sort key of an atom as a tuple of integers
SortKey(kind, atom) ==
    IF kind = "CNAtoms" THEN << atom.CN >>
    ELSE << ElementRank(atom.el), Z(atom.el), atom.r[3] >>

\* tuple comparison a < b
TupleLess(a, b) ==
    \E k \in 1..Len(a) :
       /\ a[k] < b[k]
       /\ \A j \in 1..(k - 1) : a[j] = b[j]

\* list.sort(key=...): each item goes after the items whose key is not greater
StableSort(kind, o, d) ==
    LET place(s, j) ==
            LET n == Cardinality({ k \in 1..Len(s) :
                        ~TupleLess(SortKey(kind, o[j]), SortKey(kind, o[s[k]])) })
            IN  InsertAt(s, n, j)
        S[k \in 0..Len(d)] == IF k = 0 THEN <<>> ELSE place(S[k - 1], d[k])
    IN  S[Len(d)]

ASort ==
    /\ aops < MaxAtomOps
    /\ UNCHANGED <<vvars, cvars, lvars, xvars>>
    /\ data' = StableSort(akind, objs, data)
    /\ alast' = [op |-> "sort", arg |-> <<>>, val |-> <<>>, raised |-> FALSE]
    /\ aops' = aops + 1
    /\ UNCHANGED <<objs, cache, akind>>

AtomsNext ==
    \/ AInsert
    \/ ADelete
    \/ ASetItem
    \/ ASetPosition
    \/ ASetMass
    \/ ARead
    \/ AClipBounds
    \/ ASort

(***************************************************************************)
(*              XAtom (sknano/core/atoms/_extended_atom.py)                *)
(*                                                                         *)
(* A Python value is [type, val]; a float holds its value in tenths (2.5   *)
(* is val = 25) and a str holds its text.                                  *)
(***************************************************************************)
IntValue(k) == [type |-> "int", val |-> k]

FloatValue(tenths) == [type |-> "float", val |-> tenths]

NoneValue == [type |-> "NoneType", val |-> 0]

XValues == { IntValue(3), FloatValue(25), FloatValue(-15),
             [type |-> "str", text |-> "7"], [type |-> "str", text |-> "C"],
             NoneValue }

\* isinstance(value, numbers.Number)
IsNumber(v) == v.type \in { "int", "float" }

\* int(value): truncation toward zero; int of a str parses it (ValueError
\* when it does not spell an integer); int(None) is a TypeError
IntOf(v) ==
    IF v.type = "int" THEN [err |-> "", val |-> v]
    ELSE IF v.type = "float"
    THEN [err |-> "", val |-> IntValue(Sign(v.val) * (Abs(v.val) \div 10))]
    ELSE IF v.type = "str"
    THEN IF v.text = "7" THEN [err |-> "", val |-> IntValue(7)]
         ELSE [err |-> "ValueError", val |-> v]
    ELSE [err |-> "TypeError", val |-> v]

XAttributes ==
    { "CN", "q", "atomID", "moleculeID", "atomtype", "nx", "ny", "nz" }

(***************************************************************************)
(* XAtom.__init__ (lines 57-79) with keywords atomID, moleculeID,          *)
(* atomtype, q and CN:                                                     *)
(*   self._n = Point([nx, ny, nz], dtype=int)       (None: zeros)          *)
(*   self._atomID = int(atomID) ; self._moleculeID = int(moleculeID)       *)
(*   self._atomtype = int(atomtype) ; self._q = q ; self._CN = CN          *)
(***************************************************************************)
XAtomInit(atomID, moleculeID, atomtype, q, cn) ==
    LET a == IntOf(atomID)
        m == IntOf(moleculeID)
        t == IntOf(atomtype)
    IN  IF a.err # "" THEN [err |-> a.err, atom |-> <<>>]
        ELSE IF m.err # "" THEN [err |-> m.err, atom |-> <<>>]
        ELSE IF t.err # "" THEN [err |-> t.err, atom |-> <<>>]
        ELSE [err |-> "",
              atom |-> [CN |-> cn, q |-> q, atomID |-> a.val,
                        moleculeID |-> m.val, atomtype |-> t.val,
                        nx |-> IntValue(0), ny |-> IntValue(0), nz |-> IntValue(0)]]

\* the CN, atomID, moleculeID, atomtype, nx, ny, nz setters store int(value)
\* and the q setter value, after the isinstance check (lines 101-283)
XSet(x, attr, value) ==
    IF ~IsNumber(value) THEN [err |-> "TypeError", atom |-> x]
    ELSE IF attr = "q" THEN [err |-> "", atom |-> [x EXCEPT !.q = value]]
    ELSE [err |-> "", atom |-> [x EXCEPT ![attr] = IntOf(value).val]]

XIdle == [op |-> "none", attr |-> "", arg |-> NoneValue, err |-> ""]

\* XAtom() with the default arguments
XInit ==
    /\ xatom = XAtomInit(IntValue(0), IntValue(0), IntValue(1), FloatValue(0), IntValue(0)).atom
    /\ xlast = XIdle
    /\ xops = 0

XConstruct ==
    /\ xops < MaxXOps
    /\ UNCHANGED <<vvars, cvars, lvars, avars>>
    /\ \E id \in XValues : \E cn \in XValues :
       \E res \in { XAtomInit(id, id, IntValue(1), FloatValue(0), cn) } :
          /\ xatom' = IF res.err = "" THEN res.atom ELSE xatom
          /\ xlast' = [op |-> "construct", attr |-> "CN", arg |-> cn,
                       err |-> res.err]
    /\ xops' = xops + 1

XAssign ==
    /\ xops < MaxXOps
    /\ UNCHANGED <<vvars, cvars, lvars, avars>>
    /\ \E attr \in XAttributes : \E value \in XValues :
       \E res \in { XSet(xatom, attr, value) } :
          /\ xatom' = res.atom
          /\ xlast' = [op |-> "set", attr |-> attr, arg |-> value,
                       err |-> res.err]
    /\ xops' = xops + 1

XAtomNext ==
    \/ XConstruct
    \/ XAssign

CellNext ==
    \/ CConstruct
    \/ CConstructNoUnitCell
    \/ CTranslateBasis
    \/ CTranslate
    \/ CRotate
    \/ CSetScaling
    \/ CUpdateBasis
    \/ CDeepCopy
    \/ CEq

Next ==
    \/ VNew
    \/ VDerive
    \/ VTranslate
    \/ VRotate
    \/ VSetComponent
    \/ VSetHead
    \/ VSetAnchor
    \/ VIAddScalar
    \/ VIAddVector
    \/ VIMul
    \/ VNormalize
    \/ VRezero
    \/ VAdd

AlgNext ==
    \/ VNew
    \/ VMulVector
    \/ VUndefinedVector
    \/ VUndefinedOther
    \/ VScalarOp
    \/ VConstruct
    \/ VConstructNone
    \/ VAngle

CmpNext ==
    \/ VNew
    \/ VCompare

(***************************************************************************)
(* Specifications: Spec runs the Vector mutations, AlgSpec the Vector      *)
(* constructors and algebra, CellSpec the cell operations, LatSpec the     *)
(* lattice calls; the other variables stay idle.                           *)
(***************************************************************************)
VIdleState ==
    /\ pts = <<>>
    /\ bufs = <<>>
    /\ vecs = <<>>
    /\ vlast = Idle
    /\ nops = 0

CIdleState ==
    /\ lats = <<>>
    /\ conts = <<>>
    /\ ucell = [lattice |-> 0, basis |-> 0, wrap |-> FALSE]
    /\ cell = NoCell
    /\ ccopy = NoCell
    /\ clast = CIdle
    /\ cops = 0

LIdleState ==
    /\ xlat = [abc |-> Zeros(3), angles |-> RightAngles, orientation |-> Eye3,
               offset |-> Zeros(3)]
    /\ llast = LIdle
    /\ lops = 0

AIdleState ==
    /\ objs = <<>>
    /\ data = <<>>
    /\ cache = EmptyCache
    /\ akind = "Atoms"
    /\ alast = AIdle
    /\ aops = 0

XIdleState == XInit

Init == VInit /\ CIdleState /\ LIdleState /\ AIdleState /\ XIdleState

Spec == Init /\ [][Next]_vars

AlgSpec == Init /\ [][AlgNext]_vars

CmpSpec == Init /\ [][CmpNext]_vars

CellInit == CInit /\ VIdleState /\ LIdleState /\ AIdleState /\ XIdleState

CellSpec == CellInit /\ [][CellNext]_vars

LatInit == LInit /\ VIdleState /\ CIdleState /\ AIdleState /\ XIdleState

LatSpec == LatInit /\ [][LatNext]_vars

AtomsInit == AInit /\ VIdleState /\ CIdleState /\ LIdleState /\ XIdleState

XAtomInitState == XInit /\ VIdleState /\ CIdleState /\ LIdleState /\ AIdleState

XAtomSpec == XAtomInitState /\ [][XAtomNext]_vars

AtomsSpec == AtomsInit /\ [][AtomsNext]_vars

(***************************************************************************)
(* C1.  Every mutation translate(t), translate(t, fix_anchor_point=True),  *)
(* rotate, assignment to a named component, to the head p or to the anchor *)
(* p0 of a Vector that satisfies components = p - p0 leaves it satisfying  *)
(* components = p - p0; a constructed Vector satisfies it, so it holds     *)
(* after every mutation of a sequence.                                     *)
(***************************************************************************)
C1Ops == { "translate", "translate_fix", "rotate", "setattr", "set_p", "set_p0" }

C1_IdentityKept ==
    /\ \A i \in 1..Len(vecs) : (vlast.op = "none" => Consistent(i))
    /\ [][\A i \in 1..Len(vecs) :
            (vlast'.op \in C1Ops /\ vlast'.tgt = i /\ Consistent(i))
                => Consistent(i)']_vars

C1_Witness ==
    /\ vlast.op = "rotate"
    /\ nops = 2
    /\ Len(vecs) = 1
    /\ Consistent(1)
    /\ AnchorOf(1) # Zeros(Dim(1))

(***************************************************************************)
(* C2.  A CrystalCell (or SuperCell) built from the unit cell U and an     *)
(* integer scaling value M given as a number, a length-3 sequence or a 3x3 *)
(* matrix has exactly |det M| * n basis atoms, n the number of atoms of U. *)
(***************************************************************************)
C2_AtomCount ==
    (clast.op = "construct" /\ ~clast.raised /\ clast.arg.type \in ScalingTypes)
        => Len(CellAtoms) = Abs(Det3(MatrixOf(clast.arg))) * Len(UnitAtoms)

C2_Witness ==
    /\ clast.op = "construct"
    /\ ~clast.raised
    /\ clast.arg = PyNested(Shear)
    /\ Len(UnitAtoms) = 2
    /\ Len(CellAtoms) = 4

(***************************************************************************)
(* C3.  On a cell that has a unit cell, after any sequence of assignments  *)
(* to scaling_matrix the number of basis atoms is det(scaling_matrix)      *)
(* times the number of atoms of unit_cell.basis (stated for a stored 3x3   *)
(* scaling matrix of positive determinant).                                *)
(***************************************************************************)
C3_CountFollowsScaling ==
    (cell.cls # "none" /\ cell.unit /\ cell.basis # 0
        /\ Len(cell.scaling) = 3 /\ Det3(cell.scaling) > 0)
        => Len(CellAtoms) = Det3(cell.scaling) * Len(UnitAtoms)

(***************************************************************************)
(* C4.  After update_basis(element, index=j) with the default step on a    *)
(* cell just built from U, unit atom j carries the element and the symbols *)
(* of the cell's basis are those of a cell built anew from the updated U   *)
(* with the same scaling value (only the replicas of atom j are retyped);  *)
(* with index=None every atom of both bases carries the element.           *)
(***************************************************************************)
C4_RetypesReplicas ==
    [][(clast'.op = "update_basis" /\ cops' = cops + 1
          /\ clast.op = "construct" /\ clast'.arg.val[1][2] = 0)
        => LET element == clast'.arg.type
               index == clast'.arg.val[1][1]
               re == CrystalCellInit(
                        [cell |-> NoCell, lats |-> lats', conts |-> conts',
                         raised |-> FALSE],
                        cell.cls, 0, <<>>, <<>>, ucell, TRUE, clast.arg,
                        cell.wrap)
           IN  /\ Symbols(CellAtoms') = Symbols(re.conts[re.cell.basis].atoms)
               /\ index >= 0 => UnitAtoms'[index + 1].el = element
               /\ index = -1 =>
                     /\ \A k \in 1..Len(UnitAtoms') : UnitAtoms'[k].el = element
                     /\ \A k \in 1..Len(CellAtoms') : CellAtoms'[k].el = element
      ]_vars

(***************************************************************************)
(* C5.  Constructing a cell with, or assigning to scaling_matrix, an       *)
(* identity value (None, 1, [1,1,1], ones(3), eye(3), a nested-list        *)
(* identity) keeps the same lattice object and leaves the basis with the   *)
(* same atom positions (those of U's basis after construction).            *)
(***************************************************************************)
IdentityValues ==
    { PyNone, PyInt(1), PyList(<<1, 1, 1>>), PyNested(Eye3),
      NdArray1(<<1, 1, 1>>), NdArray2(Eye3) }

C5_IdentityIsNoOp ==
    [][(clast'.op \in {"construct", "set_scaling"} /\ cops' = cops + 1
          /\ clast'.arg \in IdentityValues /\ ~clast'.raised)
        => IF clast'.op = "construct"
           THEN /\ cell'.lattice = ucell.lattice
                /\ Coords(CellAtoms') = Coords(UnitAtoms)
           ELSE /\ cell'.lattice = cell.lattice
                /\ Coords(CellAtoms') = Coords(CellAtoms)
      ]_vars

(***************************************************************************)
(* C6.  After each in-place operation (+=, -=, *= by a scalar,             *)
(* normalize(), rezero(epsilon)) on a Vector whose head agreed with its    *)
(* anchor and components, the head equals p0 plus the new components.      *)
(***************************************************************************)
C6Ops == { "iadd", "isub", "imul", "normalize", "rezero" }

C6_HeadRederived ==
    [][\A i \in 1..Len(vecs) :
          (vlast'.op \in C6Ops /\ vlast'.tgt = i /\ ~vlast'.raised
             /\ Consistent(i))
              => HeadOf(i)' = ArrAdd(AnchorOf(i)', Comp(i)')]_vars

(***************************************************************************)
(* C7.  v.rotate(...) changes only v: a Vector w constructed from v        *)
(* (Vector(v), Vector(v, copy=False), v.copy(), Vector(v, p0=v.p0)) keeps  *)
(* its anchor, head and components.                                        *)
(***************************************************************************)
C7_RotateLeavesOthers ==
    [][vlast'.op = "rotate" =>
          \A j \in 1..Len(vecs) :
              vecs[j].src = vlast'.tgt =>
                  /\ Comp(j)' = Comp(j)
                  /\ HeadOf(j)' = HeadOf(j)
                  /\ AnchorOf(j)' = AnchorOf(j)]_vars

(***************************************************************************)
(* C8.  copy.deepcopy of a UnitCell, a CrystalCell or a SuperCell does not *)
(* raise and returns a cell with a distinct basis container holding atoms  *)
(* at the same positions, a lattice with the same matrix and (3x3 case)    *)
(* the same scaling matrix.                                                *)
(***************************************************************************)
C8_DeepCopyFaithful ==
    [][(clast'.op = "deepcopy" /\ cops' = cops + 1)
        => /\ ~clast'.raised
           /\ LET o == IF clast'.arg.type = "cell"
                       THEN [lattice |-> cell.lattice, basis |-> cell.basis]
                       ELSE [lattice |-> ucell.lattice, basis |-> ucell.basis]
              IN  /\ ccopy'.basis # o.basis
                  /\ Coords(conts'[ccopy'.basis].atoms)
                        = Coords(conts[o.basis].atoms)
                  /\ lats'[ccopy'.lattice].m = lats[o.lattice].m
                  /\ (clast'.arg.type = "cell" /\ Len(cell.scaling) = 3)
                        => ccopy'.scaling = cell.scaling
      ]_vars

(***************************************************************************)
(* C9.  L.fractional_to_cartesian(L.cartesian_to_fractional(p)) returns p  *)
(* for every lattice L (any orientation matrix and offset) and point p.    *)
(***************************************************************************)
C9_RoundTrip ==
    [][(llast'.op = "round_trip" /\ lops' = lops + 1)
        => (~llast'.raised /\ llast'.val = llast'.arg)]_vars

(***************************************************************************)
(* C10.  +, -, += and -= of two Vectors with different numbers of          *)
(* components always raise ValueError and leave both operands unchanged.   *)
(***************************************************************************)
C10Ops == { "add", "sub", "iadd", "isub" }

C10_MismatchRaises ==
    [][(vlast'.op \in C10Ops /\ vlast'.oth # 0 /\ nops' = nops + 1
          /\ Dim(vlast'.tgt) # Dim(vlast'.oth))
            => (vlast'.raised /\ UNCHANGED <<pts, bufs, vecs>>)]_vars

(***************************************************************************)
(* C11.  v * w of two Vectors with different numbers of components does    *)
(* not raise.                                                              *)
(***************************************************************************)
C11_MulMismatchDoesNotRaise ==
    [][(vlast'.op = "vmul" /\ nops' = nops + 1
          /\ Dim(vlast'.tgt) # Dim(vlast'.oth))
        => ~vlast'.raised]_vars

(***************************************************************************)
(* C12 as stated.  Vector-by-vector *, /, // and **, and *, /, //, ** by   *)
(* an operand that is neither a number nor a Vector, emit a warning, do    *)
(* not raise and return the left operand, leaving every Vector unchanged.  *)
(***************************************************************************)
C12UndefinedOps ==
    { "vdiv", "vfloordiv", "vpow", "omul", "odiv", "ofloordiv", "opow" }

C13_ScalarArithmetic ==
    [][\A n \in 1..Len(vecs') : \A i \in 1..Len(vecs) : \A k \in Scalars :
         (vlast'.op \in ScalarOps /\ nops' = nops + 1 /\ vlast'.tgt = n
            /\ vlast'.oth = i /\ vlast'.val = << k >>)
         => /\ n = Len(vecs) + 1
            /\ vecs'[n].buf \notin { vecs[j].buf : j \in 1..Len(vecs) }
            /\ Dim(n)' = Dim(i)
            /\ \A x \in 1..Dim(i) :
                  /\ vlast'.op = "sadd" => Comp(n)'[x] = Comp(i)[x] + k
                  /\ vlast'.op = "ssub" => Comp(n)'[x] = Comp(i)[x] - k
                  /\ vlast'.op = "smul" => Comp(n)'[x] = Comp(i)[x] * k
                  /\ vlast'.op = "sdiv" => Comp(n)'[x] * k = Comp(i)[x]
                  /\ vlast'.op = "spow" =>
                        Comp(n)'[x] = (IF k = 0 THEN 1
                                       ELSE Comp(i)[x] * Comp(i)[x])
            /\ AnchorOf(n)' = AnchorOf(i)
            /\ HeadOf(n)' = ArrAdd(AnchorOf(i), Comp(n)')
            /\ Comp(i)' = Comp(i)
            /\ AnchorOf(i)' = AnchorOf(i)
            /\ HeadOf(i)' = HeadOf(i)
      ]_vars

C13_Witness ==
    /\ vlast.op = "sdiv"
    /\ vlast.val = << 2 >>
    /\ AnchorOf(vlast.oth) # Zeros(Dim(vlast.oth))
    /\ Comp(vlast.oth) = <<0, 2, 0>>
    /\ Comp(vlast.tgt) = <<0, 1, 0>>

(***************************************************************************)
(* C14.  Construction keeps components, anchor and head consistent:        *)
(* Vector(v, p0=a) has components v, anchor a and head a + v;              *)
(* Vector(p0=a, p=h) has components h - a, anchor a and head h; with no    *)
(* anchor given the anchor is the origin; Vector() is the 3-component zero *)
(* vector anchored at the origin.                                          *)
(***************************************************************************)
C14_ConstructionConsistent ==
    vlast.op = "ctor" =>
       \A n \in 1..Len(vecs) : vlast.tgt = n =>
          LET v == vlast.val[1]
              a == vlast.val[2]
              h == vlast.val[3]
          IN  /\ (v # None /\ a # None /\ h = None) =>
                    /\ Comp(n) = v
                    /\ AnchorOf(n) = a
                    /\ HeadOf(n) = [k \in 1..Len(v) |-> a[k] + v[k]]
              /\ (v = None /\ a # None /\ h # None) =>
                    /\ Comp(n) = [k \in 1..3 |-> h[k] - a[k]]
                    /\ AnchorOf(n) = a
                    /\ HeadOf(n) = h
              /\ a = None => \A k \in 1..Dim(n) : AnchorOf(n)[k] = 0
              /\ (v = None /\ a = None /\ h = None) =>
                    /\ Comp(n) = <<0, 0, 0>>
                    /\ AnchorOf(n) = <<0, 0, 0>>
                    /\ HeadOf(n) = <<0, 0, 0>>
              /\ Consistent(n)

C14_Witness ==
    /\ vlast.op = "ctor"
    /\ vlast.val = << None, <<1, 1, 1>>, <<0, 0, 2>> >>
    /\ Comp(vlast.tgt) = <<-1, -1, 1>>
    /\ nops = 2

(***************************************************************************)
(* C15.  A Vector constructed from a list, a tuple or an array in which    *)
(* some entries are None has 0 at exactly those entries and the given      *)
(* value at every other entry.                                             *)
(***************************************************************************)
C15_NoneEntriesZeroed ==
    vlast.op = "ctor_none" =>
       \A n \in 1..Len(vecs) : vlast.tgt = n =>
          /\ Dim(n) = Len(vlast.val[2])
          /\ \A k \in 1..Dim(n) :
                Comp(n)[k] = (IF k \in vlast.val[3] THEN 0 ELSE vlast.val[2][k])

(***************************************************************************)
(* C16.  angle(u, v) and u.angle(v) raise when u or v has zero length and  *)
(* do not return NaN; for two vectors of nonzero length (and equally many  *)
(* components) the call returns a value and does not raise.                *)
(***************************************************************************)
C16_ZeroLengthAngleRaises ==
    vlast.op \in AngleForms =>
       \A i \in 1..Len(vecs) : \A j \in 1..Len(vecs) :
          (vlast.tgt = i /\ vlast.oth = j) =>
             LET zero(n) == \A k \in 1..Dim(n) : Comp(n)[k] = 0
             IN  /\ (zero(i) \/ zero(j)) =>
                       (vlast.raised /\ vlast.val # << "nan" >>)
                 /\ (~zero(i) /\ ~zero(j) /\ Dim(i) = Dim(j)) =>
                       (~vlast.raised /\ vlast.val = << "value" >>)

(***************************************************************************)
(* C17.  Constructing a CrystalLattice with a length a, b or c that is     *)
(* zero or negative, or with an angle alpha, beta or gamma outside the     *)
(* open interval (0, 180) degrees, fails with a validation error; no       *)
(* lattice object with such parameters exists.                             *)
(***************************************************************************)
C17_InvalidLatticeRejected ==
    llast.op = "construct" =>
       LET ok(abc, angles) ==
              /\ \A k \in 1..3 : abc[k] > 0
              /\ \A k \in 1..3 : angles[k] > 0 /\ angles[k] < 180
       IN  /\ ~ok(llast.arg[1], llast.arg[2]) => llast.raised
           /\ ok(xlat.abc, xlat.angles)

(***************************************************************************)
(* C18.  Assigning a value of unsupported type (a string, a dict) to       *)
(* CrystalCell.scaling_matrix does not raise and leaves the scaling        *)
(* matrix, the lattice and the basis exactly as they were.                 *)
(***************************************************************************)
C18_UnsupportedTypeIgnored ==
    [][(clast'.op = "set_scaling" /\ cops' = cops + 1
          /\ clast'.arg.type \in { "str", "dict" })
       => /\ ~clast'.raised
          /\ cell'.scaling = cell.scaling
          /\ cell'.lattice = cell.lattice
          /\ cell'.basis = cell.basis
          /\ lats' = lats
          /\ conts' = conts
      ]_vars

C18_Witness ==
    /\ clast.op = "set_scaling"
    /\ clast.arg = PyDict
    /\ cell.scaling = DiagFlat(<<2, 1, 1>>)
    /\ cell.basis # 0
    /\ Len(conts[cell.basis].atoms) = 4

(***************************************************************************)
(* C19.  SuperCell(unit_cell, scaling_matrix) fails with an error before   *)
(* any lattice or basis is built when unit_cell is not a UnitCell (None    *)
(* included) or scaling_matrix is not an int, float, tuple, list or array  *)
(* (None included); CrystalCell fails when unit_cell is neither None nor a *)
(* UnitCell.                                                               *)
(***************************************************************************)
C19_ConstructorsReject ==
    [][(clast'.op \in { "construct", "construct_no_unit_cell" }
          /\ cops' = cops + 1)
       => /\ (clast'.cls = "SuperCell"
                /\ (clast'.unit # "UnitCell"
                      \/ clast'.arg.type \notin
                           { "int", "float", "tuple", "list", "ndarray" }))
             => /\ clast'.raised
                /\ lats' = lats
                /\ conts' = conts
                /\ cell' = cell
          /\ (clast'.cls = "CrystalCell"
                /\ clast'.unit \notin { "UnitCell", "NoneType" })
             => /\ clast'.raised
                /\ cell' = cell
      ]_vars

C19_Witness ==
    /\ clast.op = "construct_no_unit_cell"
    /\ clast.cls = "SuperCell"
    /\ clast.unit = "NoneType"
    /\ clast.arg = PyInt(2)
    /\ clast.raised
    /\ cops = 2

(***************************************************************************)
(* C20.  translate_basis(t) rebuilds the basis with the same number of     *)
(* atoms in the same order; every atom keeps its element, molecule id and  *)
(* atom id, and its fractional position is the old one plus t (t converted *)
(* to fractional first when cartesian is true), wrapped into [0, 1) on     *)
(* every axis when wrap_coords is true; the lattice, the scaling matrix    *)
(* and the unit cell are unchanged.  With m the lattice matrix, the        *)
(* fractional position of r is (r * Adj3(m)) / Det3(m).                    *)
(***************************************************************************)
C20_TranslateBasis ==
    [][(clast'.op = "translate_basis" /\ cops' = cops + 1 /\ ~clast'.raised)
       => LET old == conts[cell.basis].atoms
              new == conts'[cell'.basis].atoms
              m == lats[cell.lattice].m
              d == Det3(m)
              t == clast'.arg.val[1]
              N(x) == VecMat(x, Adj3(m))
              tN == IF clast'.cartesian THEN N(t) ELSE [j \in 1..3 |-> t[j] * d]
          IN  /\ Len(new) = Len(old)
              /\ \A k \in 1..Len(old) :
                    /\ new[k].el = old[k].el
                    /\ new[k].mol = old[k].mol
                    /\ new[k].id = old[k].id
                    /\ \A j \in 1..3 :
                          LET shift == N(new[k].r)[j] - N(old[k].r)[j] - tN[j]
                              f == N(new[k].r)[j] * Sign(d)
                          IN  IF clast'.wrap
                              THEN /\ shift % Abs(d) = 0
                                   /\ 0 <= f
                                   /\ f < Abs(d)
                              ELSE shift = 0
              /\ cell'.lattice = cell.lattice
              /\ lats' = lats
              /\ cell'.scaling = cell.scaling
              /\ cell'.unit = cell.unit
              /\ ucell' = ucell
              /\ conts'[ucell.basis] = conts[ucell.basis]
      ]_vars

C20_Witness ==
    /\ clast.op = "translate_basis"
    /\ ~clast.raised
    /\ clast.wrap
    /\ clast.cartesian
    /\ clast.arg.val = << <<-1, 2, 3>> >>
    /\ cell.scaling = Shear
    /\ Len(conts[cell.basis].atoms) = 4
    /\ \E k \in 1..4 : conts[cell.basis].atoms[k].r # <<0, 0, 0>>

(***************************************************************************)
(* C21.  After any sequence of insert, append, delete and item assignment  *)
(* on an Atoms container, interleaved with changes of an atom's position   *)
(* or mass, reading coords, masses or symbols gives exactly len(container) *)
(* entries, entry i being the current position, mass or symbol of the atom *)
(* at index i.                                                             *)
(***************************************************************************)
C21_AggregatesCurrent ==
    [][(alast'.op \in Aggregates /\ aops' = aops + 1)
       => /\ Len(alast'.val) = Len(data)
          /\ \A i \in 1..Len(data) :
                /\ alast'.op = "coords" => alast'.val[i] = objs[data[i]].r
                /\ alast'.op = "masses" => alast'.val[i] = objs[data[i]].m
                /\ alast'.op = "symbols" => alast'.val[i] = objs[data[i]].el
      ]_vars

\* the first atom was constructed with mass 1, then given mass 3, then read
C21_Witness ==
    /\ alast.op = "masses"
    /\ aops = 2
    /\ data = <<1, 2>>
    /\ alast.val = <<3, 3>>

(***************************************************************************)
(* C22.  clip_bounds(region) keeps exactly the atoms whose x, y and z all  *)
(* lie within the region's limits (bounds inclusive), in their original    *)
(* order, and removes every other atom; with center_before_clipping the    *)
(* test is applied to the position relative to the centre of mass computed *)
(* before clipping, and every kept atom ends where it was before the call. *)
(* With total mass W and mass moment S = sum(m * r), r - S / W lies in     *)
(* [lo, hi] exactly when W * lo <= W * r - S <= W * hi.                    *)
(***************************************************************************)
C22_ClipKeepsInside ==
    [][(alast'.op = "clip_bounds" /\ aops' = aops + 1 /\ ~alast'.raised)
       => LET region == alast'.arg[1]
              center == alast'.arg[2]
              W == IF center THEN TotalMass(objs, data) ELSE 1
              S == IF center THEN MassMoment(objs, data) ELSE <<0, 0, 0>>
              in(j) == \A x \in 1..3 :
                          /\ W * objs[j].r[x] - S[x] <= W * region.hi[x]
                          /\ W * objs[j].r[x] - S[x] >= W * region.lo[x]
              pos(j, d) == CHOOSE k \in 1..Len(d) : d[k] = j
          IN  /\ { data'[k] : k \in 1..Len(data') }
                    = { data[k] : k \in 1..Len(data) } \cap
                      { j \in 1..Len(objs) : in(j) }
              /\ \A k1, k2 \in 1..Len(data') :
                    k1 < k2 => pos(data'[k1], data) < pos(data'[k2], data)
              /\ \A k \in 1..Len(data') : objs'[data'[k]].r = objs[data'[k]].r
      ]_vars

\* a centred clip removed an atom and kept one that, uncentred, lies outside
C22_Witness ==
    /\ alast.op = "clip_bounds"
    /\ ~alast.raised
    /\ alast.arg[2]
    /\ Len(objs) = 2
    /\ Len(data) = 1
    /\ ~Inside(objs[data[1]].r, alast.arg[1])

(***************************************************************************)
(* C23.  sort() with no key on an atom container (Atoms, CNAtoms) orders   *)
(* the atoms by (element, atomic number Z, z-coordinate), keeps the prior  *)
(* relative order of atoms with equal keys, and leaves the container       *)
(* holding the same atoms.                                                 *)
(***************************************************************************)
C23_SortByElementZz ==
    [][(alast'.op = "sort" /\ aops' = aops + 1)
       => LET key(j) == << ElementRank(objs[j].el), Z(objs[j].el), objs[j].r[3] >>
              less(i, j) ==
                  \/ key(i)[1] < key(j)[1]
                  \/ key(i)[1] = key(j)[1] /\ key(i)[2] < key(j)[2]
                  \/ key(i)[1] = key(j)[1] /\ key(i)[2] = key(j)[2]
                       /\ key(i)[3] < key(j)[3]
              pos(j) == CHOOSE k \in 1..Len(data) : data[k] = j
          IN  /\ Len(data') = Len(data)
              /\ { data'[k] : k \in 1..Len(data') }
                    = { data[k] : k \in 1..Len(data) }
              /\ \A k1, k2 \in 1..Len(data') :
                    k1 < k2 =>
                       /\ ~less(data'[k2], data'[k1])
                       /\ key(data'[k1]) = key(data'[k2])
                             => pos(data'[k1]) < pos(data'[k2])
      ]_vars

(***************************************************************************)
(* C24.  Assigning a non-numeric value to CN, q, atomID, moleculeID,       *)
(* atomtype, nx, ny or nz raises TypeError and leaves the attribute's      *)
(* value unchanged; after construction and after any sequence of           *)
(* successful or failed assignments, CN, atomID and moleculeID hold        *)
(* integers.                                                               *)
(***************************************************************************)
C24_NumericAttributes ==
    [][(xops' = xops + 1)
       => /\ (xlast'.op = "set" /\ xlast'.arg.type \notin { "int", "float" })
             => (xlast'.err = "TypeError" /\ xatom' = xatom)
          /\ xatom'.CN.type = "int"
          /\ xatom'.atomID.type = "int"
          /\ xatom'.moleculeID.type = "int"
      ]_vars

\* the basis a scaling_matrix assignment expands: the unit cell's at
\* construction, the cell's own afterwards
BasisBefore == IF cell.cls = "none" THEN ucell.basis ELSE cell.basis

\* this step was a scaling_matrix assignment that rebuilt the basis
Expanded ==
    /\ cops' = cops + 1
    /\ clast'.op \in { "construct", "set_scaling" }
    /\ ~clast'.raised
    /\ Len(conts') = Len(conts) + 1
    /\ cell'.basis = Len(conts')

(***************************************************************************)
(* C25.  After supercell expansion two replicas made with different        *)
(* translation indices never share a molecule id, whatever molecule ids    *)
(* the basis carries (all 0 or some 0 included), and two replicas made     *)
(* with the same translation index share a molecule id exactly when their  *)
(* original atoms did.                                                     *)
(***************************************************************************)
C25_ReplicaMolIdsUnique ==
    [][Expanded =>
         LET old == conts[BasisBefore].atoms
             new == conts'[cell'.basis].atoms
             nt == Len(new) \div Len(old)
         IN  \A n1, n2 \in 1..Len(new) :
                LET i1 == (n1 - 1) % nt
                    i2 == (n2 - 1) % nt
                    a1 == old[((n1 - 1) \div nt) + 1]
                    a2 == old[((n2 - 1) \div nt) + 1]
                IN  /\ (i1 # i2) => (new[n1].mol # new[n2].mol)
                    /\ (i1 = i2) =>
                          ((new[n1].mol = new[n2].mol) <=> (a1.mol = a2.mol))
      ]_vars

(***************************************************************************)
(* C26.  Supercell expansion by a non-identity scaling matrix does not     *)
(* change the unit cell: afterwards unit_cell.basis holds the same atoms   *)
(* at the same positions and is still attached to the unit cell's original *)
(* lattice, unit_cell.lattice is unchanged, and the cell's expanded basis  *)
(* is a container of its own.                                              *)
(***************************************************************************)
C26_ExpansionKeepsUnitCell ==
    [][(Expanded /\ cell'.scaling # Eye3) =>
         /\ ucell' = ucell
         /\ lats'[ucell.lattice] = lats[ucell.lattice]
         /\ conts'[ucell.basis].atoms = conts[ucell.basis].atoms
         /\ conts'[ucell.basis].lat = ucell.lattice
         /\ cell'.basis # ucell.basis
      ]_vars

\* the scaling_matrix setter does not ignore a value of this type
AcceptedScaling(value) == value.type \in ScalingTypes \cup { "NoneType" }

\* the 3 x 3 matrix the value stands for: None and all-ones are the identity
ExpectedScaling(value) ==
    IF value.type = "NoneType" THEN Eye3 ELSE MatrixOf(value)

IsSquare3(m) == Len(m) = 3 /\ \A i \in 1..3 : Len(m[i]) = 3

(***************************************************************************)
(* C27.  After construction of a CrystalCell and after every accepted      *)
(* assignment to scaling_matrix the stored scaling matrix is defined and   *)
(* 3 x 3: a scalar k is stored as k*I, a length-3 vector v as diag(v), an  *)
(* all-ones or identity input as the identity matrix.                      *)
(***************************************************************************)
C27_ScalingMatrixSquare ==
    [][(/\ cops' = cops + 1
        /\ clast'.op \in { "construct", "construct_no_unit_cell",
                           "set_scaling" }
        /\ ~clast'.raised
        /\ (clast'.op = "set_scaling") => AcceptedScaling(clast'.arg))
       => /\ IsSquare3(cell'.scaling)
          /\ AcceptedScaling(clast'.arg)
                => (cell'.scaling = ExpectedScaling(clast'.arg))
      ]_vars

(***************************************************************************)
(* C28.  CrystalCell.translate and CrystalCell.rotate apply the transform  *)
(* exactly once to the cell's lattice and to every atom of the cell's      *)
(* basis, also when cell.basis and cell.lattice are the unit cell's own    *)
(* objects (a cell built from a unit cell with identity scaling).          *)
(***************************************************************************)
C28_TransformAppliedOnce ==
    [][(cops' = cops + 1 /\ ~clast'.raised
        /\ clast'.op \in { "translate", "rotate" })
       => LET t == clast'.arg.val[1]
              anchor == lats[cell.lattice].off
              old == conts[cell.basis].atoms
              new == conts'[cell.basis].atoms
          IN  /\ (cell.lattice # 0 /\ clast'.op = "translate")
                    => (/\ lats'[cell.lattice].off
                             = ArrAdd(lats[cell.lattice].off, t)
                        /\ lats'[cell.lattice].m = lats[cell.lattice].m)
              /\ (cell.lattice # 0 /\ clast'.op = "rotate")
                    => (/\ lats'[cell.lattice].off = lats[cell.lattice].off
                        /\ lats'[cell.lattice].m =
                             [i \in 1..3 |->
                                 QuarterTurn(lats[cell.lattice].m[i])])
              /\ (cell.basis # 0)
                    => (/\ Len(new) = Len(old)
                        /\ \A k \in 1..Len(old) :
                              new[k].r = IF clast'.op = "translate"
                                         THEN ArrAdd(old[k].r, t)
                                         ELSE RotateAbout(old[k].r, anchor))
      ]_vars

(***************************************************************************)
(* C29.  Vector comparison is a consistent ordering: for two Vectors a and *)
(* b, a > b implies b < a, and a > b and b > a never both hold.            *)
(***************************************************************************)
C29_OrderingConsistent ==
    (vlast.op = "compare" /\ ~vlast.raised)
       => /\ vlast.val[1] => vlast.val[2]
          /\ ~(vlast.val[1] /\ vlast.val[3])

(***************************************************************************)
(* C30.  CrystalCell equality is reflexive and boolean: c == c is True for *)
(* every CrystalCell c, one with no unit cell included, and c == d is True *)
(* or False, never None, for every pair of cells.                          *)
(***************************************************************************)
C30_EqualityBoolean ==
    (clast.op = "eq" /\ ~clast.raised)
       => /\ clast.val \in { "True", "False" }
          /\ (clast.arg.type = clast.other) => (clast.val = "True")

====
